---- MODULE Spec2Model ----
(***************************************************************************)
(* Model of the chatifier patch engine (util/patch: parsePatch,            *)
(* seekSequence, computeReplacements, applyReplacements,                   *)
(* deriveNewContents, applyHunksToFiles) and of chat_patch's run.          *)
(*                                                                         *)
(* A string is a sequence of characters; the multi-character literals of   *)
(* the patch format ("*** Begin Patch", "*** Add File", "@@", ...) are     *)
(* single characters of the alphabet.  NL is the newline character.        *)
(* Indices are 0-based as in the source; -1 is "not found".                *)
(***************************************************************************)
EXTENDS Integers, Sequences, FiniteSets, TLC

NL == "\n"

(***************************************************************************)
(* Array and string primitives of the JavaScript runtime.                  *)
(***************************************************************************)

\* arr.slice(from, to) with 0-based from (inclusive) and to (exclusive)
Slice(arr, from, to) ==
  IF to <= from THEN <<>> ELSE SubSeq(arr, from + 1, to)

Min2(a, b) == IF a < b THEN a ELSE b

\* arr.splice(start, deleteCount, ...items): start and deleteCount are clamped
Splice(arr, start, deleteCount, items) ==
  LET s == Min2(start, Len(arr))
      d == Min2(deleteCount, Len(arr) - s)
  IN  Slice(arr, 0, s) \o items \o Slice(arr, s + d, Len(arr))

\* str.split("\n"): always at least one element
RECURSIVE SplitFrom(_, _, _)
SplitFrom(str, i, cur) ==
  IF i > Len(str) THEN <<cur>>
  ELSE IF str[i] = NL THEN <<cur>> \o SplitFrom(str, i + 1, <<>>)
  ELSE SplitFrom(str, i + 1, Append(cur, str[i]))

SplitNL(str) == SplitFrom(str, 1, <<>>)

\* arr.join("\n")
RECURSIVE JoinNL(_)
JoinNL(arr) ==
  IF Len(arr) = 0 THEN <<>>
  ELSE IF Len(arr) = 1 THEN arr[1]
  ELSE arr[1] \o <<NL>> \o JoinNL(Tail(arr))

(***************************************************************************)
(* seekSequence                                                            *)
(***************************************************************************)

\* the inner loop over j: TRUE iff lines[i+j] = pattern[j] for all j
RECURSIVE seekInner(_, _, _, _)
seekInner(lines, pattern, i, j) ==
  IF j >= Len(pattern) THEN TRUE
  ELSE IF lines[i + j + 1] # pattern[j + 1] THEN FALSE
  ELSE seekInner(lines, pattern, i, j + 1)

\* the outer loop: for (i = startIndex; i <= lines.length - pattern.length; i++)
RECURSIVE seekLoop(_, _, _)
seekLoop(lines, pattern, i) ==
  IF i > Len(lines) - Len(pattern) THEN -1
  ELSE IF seekInner(lines, pattern, i, 0) THEN i
  ELSE seekLoop(lines, pattern, i + 1)

\* a variant that searches from the top of the file whatever startIndex is
seekSequenceFromTop(lines, pattern, startIndex) ==
  IF Len(pattern) = 0 THEN -1 ELSE seekLoop(lines, pattern, 0)

\* a variant whose loop runs downwards, so that it returns the highest match
RECURSIVE seekLoopDown(_, _, _, _)
seekLoopDown(lines, pattern, i, startIndex) ==
  IF i < startIndex THEN -1
  ELSE IF seekInner(lines, pattern, i, 0) THEN i
  ELSE seekLoopDown(lines, pattern, i - 1, startIndex)

seekSequenceLast(lines, pattern, startIndex) ==
  IF Len(pattern) = 0 THEN -1
  ELSE seekLoopDown(lines, pattern, Len(lines) - Len(pattern), startIndex)

\* a variant whose loop stops one position early (i < lines.length - pattern.length)
RECURSIVE seekLoopShort(_, _, _)
seekLoopShort(lines, pattern, i) ==
  IF i >= Len(lines) - Len(pattern) THEN -1
  ELSE IF seekInner(lines, pattern, i, 0) THEN i
  ELSE seekLoopShort(lines, pattern, i + 1)

seekSequenceShort(lines, pattern, startIndex) ==
  IF Len(pattern) = 0 THEN -1 ELSE seekLoopShort(lines, pattern, startIndex)

seekSequence(lines, pattern, startIndex) ==
  IF Len(pattern) = 0 THEN -1 ELSE seekLoop(lines, pattern, startIndex)

(***************************************************************************)
(* UpdateChunk.  change_context is optional: <<>> is undefined, <<s>> is   *)
(* the string s.  JavaScript treats undefined and "" alike as falsy.       *)
(***************************************************************************)

Undefined == <<>>

Truthy(opt) == opt # Undefined /\ opt[1] # <<>>

UpdateChunk(old, new, ctx, eof) ==
  [old_lines |-> old, new_lines |-> new, change_context |-> ctx, is_end_of_file |-> eof]

(***************************************************************************)
(* computeReplacements: a replacement is <<start, length, newLines>>.      *)
(* The result is [ok, error, replacements, lineIndex]; on a throw ok is    *)
(* FALSE and error names the thrown message.                               *)
(***************************************************************************)

\* replacements.sort((a, b) => a[0] - b[0]): Array.prototype.sort is stable
RECURSIVE InsertSorted(_, _)
InsertSorted(sorted, r) ==
  IF Len(sorted) = 0 THEN <<r>>
  ELSE IF sorted[Len(sorted)][1] <= r[1] THEN Append(sorted, r)
  ELSE Append(InsertSorted(Slice(sorted, 0, Len(sorted) - 1), r), sorted[Len(sorted)])

RECURSIVE SortReplacements(_)
SortReplacements(reps) ==
  IF Len(reps) = 0 THEN <<>>
  ELSE InsertSorted(SortReplacements(Slice(reps, 0, Len(reps) - 1)), reps[Len(reps)])

\* the search for old_lines of one chunk (source lines 199-209), from lineIndex:
\* [found, pattern, newSlice]
searchOldLines(originalLines, chunk, lineIndex) ==
  LET pattern == chunk.old_lines
      newSlice == chunk.new_lines
      found == seekSequence(originalLines, pattern, lineIndex)
  IN  IF found = -1 /\ Len(pattern) > 0 /\ pattern[Len(pattern)] = <<>>
      THEN LET pattern2 == Slice(pattern, 0, Len(pattern) - 1)
               newSlice2 == IF Len(newSlice) > 0 /\ newSlice[Len(newSlice)] = <<>>
                            THEN Slice(newSlice, 0, Len(newSlice) - 1)
                            ELSE newSlice
           IN  [found |-> seekSequence(originalLines, pattern2, lineIndex),
                pattern |-> pattern2, newSlice |-> newSlice2]
      ELSE [found |-> found, pattern |-> pattern, newSlice |-> newSlice]

\* a variant of the context search that puts the cursor after the context line
contextIndexPast(originalLines, chunk, lineIndex) ==
  LET found == IF Truthy(chunk.change_context)
               THEN seekSequence(originalLines, <<chunk.change_context[1]>>, lineIndex)
               ELSE -1
  IN  IF found = -1 THEN -1 ELSE found + 1

\* the position the context search leaves the cursor at (source lines 181-188);
\* -1 when the context is present and not found
contextIndex(originalLines, chunk, lineIndex) ==
  IF Truthy(chunk.change_context)
  THEN seekSequence(originalLines, <<chunk.change_context[1]>>, lineIndex)
  ELSE -1

\* the loop over the chunks, from chunk k (1-based) with the state so far
RECURSIVE computeLoop(_, _, _, _, _)
computeLoop(originalLines, chunks, k, lineIndex, replacements) ==
  IF k > Len(chunks)
  THEN [ok |-> TRUE, error |-> "", replacements |-> SortReplacements(replacements),
        lineIndex |-> lineIndex]
  ELSE
    LET chunk == chunks[k]
        contextIdx == contextIndex(originalLines, chunk, lineIndex)
        cursor == IF Truthy(chunk.change_context) THEN contextIdx ELSE lineIndex
    IN  IF Truthy(chunk.change_context) /\ contextIdx = -1
        THEN [ok |-> FALSE, error |-> "Failed to find context", replacements |-> <<>>,
              lineIndex |-> lineIndex]
        ELSE IF Len(chunk.old_lines) = 0
        THEN IF Truthy(chunk.change_context) /\ contextIdx # -1
             THEN computeLoop(originalLines, chunks, k + 1, cursor,
                              Append(replacements, <<contextIdx, 1, chunk.new_lines>>))
             ELSE computeLoop(originalLines, chunks, k + 1, cursor,
                              Append(replacements, <<Len(originalLines), 0, chunk.new_lines>>))
        ELSE
          LET s == searchOldLines(originalLines, chunk, cursor)
          IN  IF s.found # -1
              THEN computeLoop(originalLines, chunks, k + 1, s.found + Len(s.pattern),
                               Append(replacements, <<s.found, Len(s.pattern), s.newSlice>>))
              ELSE [ok |-> FALSE, error |-> "Failed to find expected lines",
                    replacements |-> <<>>, lineIndex |-> cursor]

computeReplacements(originalLines, chunks) ==
  computeLoop(originalLines, chunks, 1, 0, <<>>)

(***************************************************************************)
(* applyReplacements                                                       *)
(***************************************************************************)

\* for (j = 0; j < newSegment.length; j++) result.splice(startIdx + j, 0, newSegment[j])
RECURSIVE insertSegment(_, _, _, _)
insertSegment(result, startIdx, newSegment, j) ==
  IF j >= Len(newSegment) THEN result
  ELSE insertSegment(Splice(result, startIdx + j, 0, <<newSegment[j + 1]>>),
                     startIdx, newSegment, j + 1)

\* for (i = replacements.length - 1; i >= 0; i--), i 0-based
RECURSIVE applyLoop(_, _, _)
applyLoop(result, replacements, i) ==
  IF i < 0 THEN result
  ELSE LET r == replacements[i + 1]
           removed == Splice(result, r[1], r[2], <<>>)
       IN  applyLoop(insertSegment(removed, r[1], r[3], 0), replacements, i - 1)

\* a variant that inserts the new lines and leaves the old ones in place
RECURSIVE applyKeepOld(_, _, _)
applyKeepOld(result, replacements, i) ==
  IF i < 0 THEN result
  ELSE applyKeepOld(insertSegment(result, replacements[i + 1][1], replacements[i + 1][3], 0),
                    replacements, i - 1)

applyReplacementsKeepOld(lines, replacements) ==
  applyKeepOld(lines, replacements, Len(replacements) - 1)

applyReplacements(lines, replacements) ==
  applyLoop(lines, replacements, Len(replacements) - 1)

(***************************************************************************)
(* deriveNewContents, given the content readFileSync returned              *)
(***************************************************************************)

\* originalContent.split("\n") with one trailing empty element popped
originalLinesOf(originalContent) ==
  LET originalLines == SplitNL(originalContent)
  IN  IF Len(originalLines) > 0 /\ originalLines[Len(originalLines)] = <<>>
      THEN Slice(originalLines, 0, Len(originalLines) - 1)
      ELSE originalLines

\* the final step: push "" unless the last line is empty, then join
finishContents(newLines) ==
  IF Len(newLines) = 0 \/ newLines[Len(newLines)] # <<>>
  THEN JoinNL(Append(newLines, <<>>))
  ELSE JoinNL(newLines)

\* [ok, error, content]
deriveNewContents(originalContent, chunks) ==
  LET originalLines == originalLinesOf(originalContent)
      rep == computeReplacements(originalLines, chunks)
  IN  IF ~rep.ok
      THEN [ok |-> FALSE, error |-> rep.error, content |-> <<>>]
      ELSE [ok |-> TRUE, error |-> "",
            content |-> finishContents(applyReplacements(originalLines, rep.replacements))]

(***************************************************************************)
(* Patch text.  The literals of the format are characters of their own;    *)
(* each of them begins with the three stars that startsWith("***") tests.  *)
(***************************************************************************)

BeginPatch == "*** Begin Patch"
EndPatch == "*** End Patch"
EndOfFile == "*** End of File"
AddFile == "*** Add File"
DeleteFile == "*** Delete File"
UpdateFile == "*** Update File"
MoveTo == "*** Move to"
Stars == "***"
Colon == ":"
Space == " "
Plus == "+"
Minus == "-"
AtAt == "@@"

StarChars == {BeginPatch, EndPatch, EndOfFile, AddFile, DeleteFile, UpdateFile, MoveTo, Stars}

\* line.startsWith("***")
startsWithStars(line) == Len(line) > 0 /\ line[1] \in StarChars

\* line.startsWith(c) for a one-character c
startsWithChar(line, c) == Len(line) > 0 /\ line[1] = c

\* line.startsWith("*** Add File:") and its like: the literal, then the colon
startsWithHeader(line, header) == Len(line) > 1 /\ line[1] = header /\ line[2] = Colon

\* str.trim()
RECURSIVE TrimStart(_)
TrimStart(str) ==
  IF Len(str) > 0 /\ str[1] = Space THEN TrimStart(Tail(str)) ELSE str

RECURSIVE TrimEnd(_)
TrimEnd(str) ==
  IF Len(str) > 0 /\ str[Len(str)] = Space THEN TrimEnd(Slice(str, 0, Len(str) - 1)) ELSE str

Trim(str) == TrimEnd(TrimStart(str))

\* str.split(":"): all the pieces
RECURSIVE SplitColonFrom(_, _, _)
SplitColonFrom(str, i, cur) ==
  IF i > Len(str) THEN <<cur>>
  ELSE IF str[i] = Colon THEN <<cur>> \o SplitColonFrom(str, i + 1, <<>>)
  ELSE SplitColonFrom(str, i + 1, Append(cur, str[i]))

\* line.split(":", 2)[1]?.trim(): the limit keeps the first two pieces only;
\* the result is optional (Undefined when there is no second piece)
headerPath(line) ==
  LET pieces == SplitColonFrom(line, 1, <<>>)
      kept == Slice(pieces, 0, Min2(2, Len(pieces)))
  IN  IF Len(kept) < 2 THEN Undefined ELSE <<Trim(kept[2])>>

(***************************************************************************)
(* Hunks.  One record shape for the three types; the fields a type does    *)
(* not have hold Undefined / the empty sequence.                           *)
(***************************************************************************)

AddHunk(p, contents) ==
  [type |-> "add", path |-> p, move_path |-> Undefined, contents |-> contents, chunks |-> <<>>]

DeleteHunk(p) ==
  [type |-> "delete", path |-> p, move_path |-> Undefined, contents |-> <<>>, chunks |-> <<>>]

UpdateHunk(p, move, chunks) ==
  [type |-> "update", path |-> p, move_path |-> move, contents |-> <<>>, chunks |-> chunks]

\* the files a hunk names: its path and, for a move, its move_path
NamedPaths(hunk) ==
  {hunk.path} \cup (IF Truthy(hunk.move_path) THEN {hunk.move_path[1]} ELSE {})

(***************************************************************************)
(* parsePatchHeader(lines, idx), idx 0-based: [ok, filePath, movePath,     *)
(* nextIdx]; ok = FALSE is the null result.                                *)
(***************************************************************************)

NullHeader == [ok |-> FALSE, filePath |-> <<>>, movePath |-> Undefined, nextIdx |-> 0]

parsePatchHeader(lines, idx) ==
  LET line == lines[idx + 1]
      filePath == headerPath(line)
  IN  IF startsWithHeader(line, AddFile) \/ startsWithHeader(line, DeleteFile)
      THEN IF Truthy(filePath)
           THEN [ok |-> TRUE, filePath |-> filePath[1], movePath |-> Undefined, nextIdx |-> idx + 1]
           ELSE NullHeader
      ELSE IF startsWithHeader(line, UpdateFile)
      THEN LET hasMove == idx + 1 < Len(lines) /\ startsWithHeader(lines[idx + 2], MoveTo)
               movePath == IF hasMove THEN headerPath(lines[idx + 2]) ELSE Undefined
               nextIdx == IF hasMove THEN idx + 2 ELSE idx + 1
           IN  IF Truthy(filePath)
               THEN [ok |-> TRUE, filePath |-> filePath[1], movePath |-> movePath, nextIdx |-> nextIdx]
               ELSE NullHeader
      ELSE NullHeader

(***************************************************************************)
(* parseUpdateChunks                                                       *)
(***************************************************************************)

\* a variant of the body loop that takes a line with a leading space as an old
\* line only
RECURSIVE chunkBodySpaceOldOnly(_, _, _, _)
chunkBodySpaceOldOnly(lines, i, oldLines, newLines) ==
  IF ~(i < Len(lines) /\ ~startsWithChar(lines[i + 1], AtAt) /\ ~startsWithStars(lines[i + 1]))
  THEN [oldLines |-> oldLines, newLines |-> newLines, isEndOfFile |-> FALSE, nextIdx |-> i]
  ELSE
    LET changeLine == lines[i + 1]
    IN  IF startsWithChar(changeLine, Space) \/ startsWithChar(changeLine, Minus)
        THEN chunkBodySpaceOldOnly(lines, i + 1, Append(oldLines, Tail(changeLine)), newLines)
        ELSE IF startsWithChar(changeLine, Plus)
        THEN chunkBodySpaceOldOnly(lines, i + 1, oldLines, Append(newLines, Tail(changeLine)))
        ELSE chunkBodySpaceOldOnly(lines, i + 1, oldLines, newLines)

\* the body loop of one chunk, from line i: [oldLines, newLines, isEndOfFile, nextIdx]
RECURSIVE chunkBody(_, _, _, _)
chunkBody(lines, i, oldLines, newLines) ==
  IF ~(i < Len(lines) /\ ~startsWithChar(lines[i + 1], AtAt) /\ ~startsWithStars(lines[i + 1]))
  THEN [oldLines |-> oldLines, newLines |-> newLines, isEndOfFile |-> FALSE, nextIdx |-> i]
  ELSE
    LET changeLine == lines[i + 1]
    IN  IF changeLine = <<EndOfFile>>
        THEN [oldLines |-> oldLines, newLines |-> newLines, isEndOfFile |-> TRUE, nextIdx |-> i + 1]
        ELSE IF startsWithChar(changeLine, Space)
        THEN chunkBody(lines, i + 1, Append(oldLines, Tail(changeLine)), Append(newLines, Tail(changeLine)))
        ELSE IF startsWithChar(changeLine, Minus)
        THEN chunkBody(lines, i + 1, Append(oldLines, Tail(changeLine)), newLines)
        ELSE IF startsWithChar(changeLine, Plus)
        THEN chunkBody(lines, i + 1, oldLines, Append(newLines, Tail(changeLine)))
        ELSE chunkBody(lines, i + 1, oldLines, newLines)

\* the outer loop: [chunks, nextIdx]
RECURSIVE chunksLoop(_, _, _)
chunksLoop(lines, i, chunks) ==
  IF ~(i < Len(lines) /\ ~startsWithStars(lines[i + 1]))
  THEN [chunks |-> chunks, nextIdx |-> i]
  ELSE IF startsWithChar(lines[i + 1], AtAt)
  THEN LET contextLine == Trim(Tail(lines[i + 1]))
           body == chunkBody(lines, i + 1, <<>>, <<>>)
       IN  chunksLoop(lines, body.nextIdx,
                      Append(chunks,
                             UpdateChunk(body.oldLines, body.newLines,
                                         IF contextLine # <<>> THEN <<contextLine>> ELSE Undefined,
                                         body.isEndOfFile)))
  ELSE chunksLoop(lines, i + 1, chunks)

parseUpdateChunks(lines, startIdx) == chunksLoop(lines, startIdx, <<>>)

(***************************************************************************)
(* parseAddContent                                                         *)
(***************************************************************************)

\* the loop: [content, nextIdx], content with a "\n" after every '+' line
RECURSIVE addLoop(_, _, _)
addLoop(lines, i, content) ==
  IF ~(i < Len(lines) /\ ~startsWithStars(lines[i + 1]))
  THEN [content |-> content, nextIdx |-> i]
  ELSE IF startsWithChar(lines[i + 1], Plus)
  THEN addLoop(lines, i + 1, content \o Tail(lines[i + 1]) \o <<NL>>)
  ELSE addLoop(lines, i + 1, content)

\* a variant that keeps the newline after the last '+' line
parseAddContentKeepNewline(lines, startIdx) ==
  LET r == addLoop(lines, startIdx, <<>>)
  IN  [content |-> r.content, nextIdx |-> r.nextIdx]

parseAddContent(lines, startIdx) ==
  LET r == addLoop(lines, startIdx, <<>>)
  IN  [content |-> IF Len(r.content) > 0 /\ r.content[Len(r.content)] = NL
                   THEN Slice(r.content, 0, Len(r.content) - 1)
                   ELSE r.content,
       nextIdx |-> r.nextIdx]

(***************************************************************************)
(* parsePatch: [ok, hunks]; ok = FALSE is the thrown "Invalid patch        *)
(* format" error.                                                          *)
(***************************************************************************)

\* lines.findIndex(line => line.trim() === marker), from index i
RECURSIVE findMarkerFrom(_, _, _)
findMarkerFrom(lines, marker, i) ==
  IF i >= Len(lines) THEN -1
  ELSE IF Trim(lines[i + 1]) = <<marker>> THEN i
  ELSE findMarkerFrom(lines, marker, i + 1)

findMarker(lines, marker) == findMarkerFrom(lines, marker, 0)

\* while (i < endIdx)
RECURSIVE parseLoop(_, _, _, _)
parseLoop(lines, i, endIdx, hunks) ==
  IF ~(i < endIdx) THEN hunks
  ELSE
    LET header == parsePatchHeader(lines, i)
    IN  IF ~header.ok THEN parseLoop(lines, i + 1, endIdx, hunks)
        ELSE IF startsWithHeader(lines[i + 1], AddFile)
        THEN LET a == parseAddContent(lines, header.nextIdx)
             IN  parseLoop(lines, a.nextIdx, endIdx,
                           Append(hunks, AddHunk(header.filePath, a.content)))
        ELSE IF startsWithHeader(lines[i + 1], DeleteFile)
        THEN parseLoop(lines, header.nextIdx, endIdx, Append(hunks, DeleteHunk(header.filePath)))
        ELSE IF startsWithHeader(lines[i + 1], UpdateFile)
        THEN LET u == parseUpdateChunks(lines, header.nextIdx)
             IN  parseLoop(lines, u.nextIdx, endIdx,
                           Append(hunks, UpdateHunk(header.filePath, header.movePath, u.chunks)))
        ELSE parseLoop(lines, i + 1, endIdx, hunks)

\* a variant without the test that Begin comes before End
parsePatchAnyOrder(text) ==
  LET lines == SplitNL(text)
      beginIdx == findMarker(lines, BeginPatch)
      endIdx == findMarker(lines, EndPatch)
  IN  IF beginIdx = -1 \/ endIdx = -1
      THEN [ok |-> FALSE, hunks |-> <<>>]
      ELSE [ok |-> TRUE, hunks |-> parseLoop(lines, beginIdx + 1, endIdx, <<>>)]

parsePatch(text) ==
  LET lines == SplitNL(text)
      beginIdx == findMarker(lines, BeginPatch)
      endIdx == findMarker(lines, EndPatch)
  IN  IF beginIdx = -1 \/ endIdx = -1 \/ beginIdx >= endIdx
      THEN [ok |-> FALSE, hunks |-> <<>>]
      ELSE [ok |-> TRUE, hunks |-> parseLoop(lines, beginIdx + 1, endIdx, <<>>)]

(***************************************************************************)
(* Paths.  A path string uses "/" as its separator; a resolved (absolute,  *)
(* normalised) path is the sequence of its segments, Root being "/".       *)
(***************************************************************************)

Slash == "/"
Dot == "."
Root == <<>>

\* p.split("/")
RECURSIVE SplitSlashFrom(_, _, _)
SplitSlashFrom(str, i, cur) ==
  IF i > Len(str) THEN <<cur>>
  ELSE IF str[i] = Slash THEN <<cur>> \o SplitSlashFrom(str, i + 1, <<>>)
  ELSE SplitSlashFrom(str, i + 1, Append(cur, str[i]))

\* normalisation of a segment list onto an absolute prefix: "" and "." are
\* dropped, ".." removes the last segment (and stays at the root)
RECURSIVE normalizeOnto(_, _)
normalizeOnto(abs, segs) ==
  IF Len(segs) = 0 THEN abs
  ELSE IF segs[1] = <<>> \/ segs[1] = <<Dot>> THEN normalizeOnto(abs, Tail(segs))
  ELSE IF segs[1] = <<Dot, Dot>>
  THEN normalizeOnto(Slice(abs, 0, Len(abs) - 1), Tail(segs))
  ELSE normalizeOnto(Append(abs, segs[1]), Tail(segs))

\* path.isAbsolute(p)
isAbsolute(p) == Len(p) > 0 /\ p[1] = Slash

\* path.resolve(baseDir, p), baseDir already resolved
pathResolve(baseDir, p) ==
  IF isAbsolute(p) THEN normalizeOnto(Root, SplitSlashFrom(p, 1, <<>>))
  ELSE normalizeOnto(baseDir, SplitSlashFrom(p, 1, <<>>))

\* path.dirname(p) of a resolved path
dirname(abs) == Slice(abs, 0, Len(abs) - 1)

\* chat_patch's run, lines 13-18: the paths of every hunk resolved against baseDir
resolveHunk(baseDir, hunk) ==
  IF hunk.type = "update" /\ Truthy(hunk.move_path)
  THEN [hunk EXCEPT !.path = pathResolve(baseDir, hunk.path),
                    !.move_path = <<pathResolve(baseDir, hunk.move_path[1])>>]
  ELSE [hunk EXCEPT !.path = pathResolve(baseDir, hunk.path)]

resolveHunks(baseDir, hs) == [k \in 1..Len(hs) |-> resolveHunk(baseDir, hs[k])]

(***************************************************************************)
(* The filesystem the fs calls act on: [files, dirs, readonly].  files     *)
(* maps each existing file's resolved path to its content, dirs is the set *)
(* of existing directories, readonly the directories whose entries cannot  *)
(* be created or removed (no write permission on the directory).  Each     *)
(* call yields [ok, disk]: ok = FALSE is the rejected promise / the throw. *)
(***************************************************************************)

isFile(disk, p) == p \in DOMAIN disk.files

Prefixes(dir) == {Slice(dir, 0, n) : n \in 0..Len(dir)}

\* fs.mkdir(dir, {recursive: true})
fsMkdir(disk, dir) ==
  LET missing == {d \in Prefixes(dir) : d \notin disk.dirs}
      blocked == \/ \E d \in Prefixes(dir) : isFile(disk, d)
                 \/ \E d \in missing : dirname(d) \in disk.dirs /\ dirname(d) \in disk.readonly
  IN  IF blocked THEN [ok |-> FALSE, disk |-> disk]
      ELSE [ok |-> TRUE, disk |-> [disk EXCEPT !.dirs = @ \cup missing]]

\* fs.writeFile(p, content, "utf-8")
fsWriteFile(disk, p, content) ==
  IF \/ p \in disk.dirs
     \/ dirname(p) \notin disk.dirs
     \/ (~isFile(disk, p) /\ dirname(p) \in disk.readonly)
  THEN [ok |-> FALSE, disk |-> disk]
  ELSE [ok |-> TRUE,
        disk |-> [disk EXCEPT !.files =
                    [q \in DOMAIN disk.files \cup {p} |-> IF q = p THEN content ELSE disk.files[q]]]]

\* fs.unlink(p)
fsUnlink(disk, p) ==
  IF ~isFile(disk, p) \/ dirname(p) \in disk.readonly
  THEN [ok |-> FALSE, disk |-> disk]
  ELSE [ok |-> TRUE,
        disk |-> [disk EXCEPT !.files = [q \in DOMAIN disk.files \ {p} |-> disk.files[q]]]]

\* fsSync.readFileSync(p, "utf-8"): [ok, content]
fsReadFile(disk, p) ==
  IF isFile(disk, p) THEN [ok |-> TRUE, content |-> disk.files[p]]
  ELSE [ok |-> FALSE, content |-> <<>>]

(***************************************************************************)
(* resolvePath and replaceOnce (chat_edit).  Texts are sequences of        *)
(* characters; replaceOnce gives [ok, value], ok = FALSE being a throw.    *)
(***************************************************************************)

\* resolvePath: the resolved path, rejected when it leaves baseDir
resolvePath(baseDir, inputPath) ==
  LET resolvedPath == pathResolve(baseDir, inputPath)
  IN  [ok |-> Len(resolvedPath) >= Len(baseDir)
              /\ SubSeq(resolvedPath, 1, Len(baseDir)) = baseDir,
       path |-> resolvedPath]

\* content.indexOf(oldString), searching from position i (0-based)
RECURSIVE indexOfFrom(_, _, _)
indexOfFrom(content, oldString, i) ==
  IF i > Len(content) - Len(oldString) THEN -1
  ELSE IF SubSeq(content, i + 1, i + Len(oldString)) = oldString THEN i
  ELSE indexOfFrom(content, oldString, i + 1)

indexOf(content, oldString) == indexOfFrom(content, oldString, 0)

\* content.lastIndexOf(oldString), searching down from position i
RECURSIVE lastIndexOfFrom(_, _, _)
lastIndexOfFrom(content, oldString, i) ==
  IF i < 0 THEN -1
  ELSE IF SubSeq(content, i + 1, i + Len(oldString)) = oldString THEN i
  ELSE lastIndexOfFrom(content, oldString, i - 1)

lastIndexOf(content, oldString) ==
  lastIndexOfFrom(content, oldString, Len(content) - Len(oldString))

\* content.split(oldString).join(newString) for a non-empty oldString
RECURSIVE splitJoin(_, _, _)
splitJoin(content, oldString, newString) ==
  LET at == indexOf(content, oldString)
  IN  IF at = -1 THEN content
      ELSE SubSeq(content, 1, at) \o newString
           \o splitJoin(SubSeq(content, at + Len(oldString) + 1, Len(content)),
                        oldString, newString)

replaceOnce(content, oldString, newString, replaceAll) ==
  LET first == indexOf(content, oldString)
      last == lastIndexOf(content, oldString)
      failure == [ok |-> FALSE, value |-> <<>>]
  IN  IF oldString = newString THEN failure
      ELSE IF oldString = <<>> THEN [ok |-> TRUE, value |-> newString]
      ELSE IF first = -1 THEN failure
      ELSE IF replaceAll THEN [ok |-> TRUE, value |-> splitJoin(content, oldString, newString)]
      ELSE IF first # last THEN failure
      ELSE [ok |-> TRUE,
            value |-> SubSeq(content, 1, first) \o newString
                      \o SubSeq(content, first + Len(oldString) + 1, Len(content))]

(***************************************************************************)
(* applyHunksToFiles: the body of the loop for one hunk.  The result is    *)
(* [ok, disk, list, path]: on success the path is pushed onto the named    *)
(* list (added / modified / deleted); ok = FALSE is the error thrown out   *)
(* of the loop, disk holding whatever was written before it.               *)
(***************************************************************************)

Thrown(disk) == [ok |-> FALSE, disk |-> disk, list |-> "", path |-> Root]

Applied(disk, list, p) == [ok |-> TRUE, disk |-> disk, list |-> list, path |-> p]

\* if (dir !== "." && dir !== "/") await fs.mkdir(dir, {recursive: true});
\* the dirname of a resolved path is never "."
ensureDir(disk, p) ==
  IF dirname(p) # Root THEN fsMkdir(disk, dirname(p)) ELSE [ok |-> TRUE, disk |-> disk]

applyAdd(disk, hunk) ==
  LET m == ensureDir(disk, hunk.path)
      w == fsWriteFile(m.disk, hunk.path, hunk.contents)
  IN  IF ~m.ok THEN Thrown(m.disk)
      ELSE IF ~w.ok THEN Thrown(w.disk)
      ELSE Applied(w.disk, "added", hunk.path)

applyDelete(disk, hunk) ==
  LET u == fsUnlink(disk, hunk.path)
  IN  IF ~u.ok THEN Thrown(u.disk) ELSE Applied(u.disk, "deleted", hunk.path)

\* the move branch, lines 276-283, given the derived content
applyMove(disk, hunk, content) ==
  LET m == ensureDir(disk, hunk.move_path[1])
      w == fsWriteFile(m.disk, hunk.move_path[1], content)
      u == fsUnlink(w.disk, hunk.path)
  IN  IF ~m.ok THEN Thrown(m.disk)
      ELSE IF ~w.ok THEN Thrown(w.disk)
      ELSE IF ~u.ok THEN Thrown(u.disk)
      ELSE Applied(u.disk, "modified", hunk.move_path[1])

applyUpdate(disk, hunk) ==
  LET r == fsReadFile(disk, hunk.path)
      d == deriveNewContents(r.content, hunk.chunks)
      w == fsWriteFile(disk, hunk.path, d.content)
  IN  IF ~r.ok \/ ~d.ok THEN Thrown(disk)
      ELSE IF Truthy(hunk.move_path) THEN applyMove(disk, hunk, d.content)
      ELSE IF ~w.ok THEN Thrown(w.disk)
      ELSE Applied(w.disk, "modified", hunk.path)

applyHunk(disk, hunk) ==
  IF hunk.type = "add" THEN applyAdd(disk, hunk)
  ELSE IF hunk.type = "delete" THEN applyDelete(disk, hunk)
  ELSE applyUpdate(disk, hunk)

(***************************************************************************)
(* State.                                                                  *)
(*   seek*      one call of seekSequence: its arguments and its result     *)
(*              (<<>> before the call, <<index>> after it)                 *)
(*   patchText, parsed   one call of parsePatch: the text and its result   *)
(*   hunks      the hunks chat_patch's run got from parsePatch             *)
(*   resolved   the hunks with their paths resolved (run, lines 13-18)     *)
(*   disk       the filesystem; disk0 is the filesystem run started on     *)
(*   idx        the position of applyHunksToFiles' loop in resolved        *)
(*   pc         "idle", "parse" (run called, parsePatch not yet), "start"  *)
(*              (hunks parsed, not yet resolved), "loop", "done"           *)
(*              (AffectedPaths returned) or "failed" (an error thrown)     *)
(*   added, modified, deleted   the AffectedPaths lists                    *)
(*   editOld, editNew, editAll   the arguments of one chat_edit call on f  *)
(*   editPc     "idle", "start", "done" (file written) or "failed"         *)
(*   embedder   the module variable of embedder.ts (Null or an instance)   *)
(*   inits      the number of FlagEmbedding.init calls started             *)
(*   callPc, callInit, callResult   per caller of getEmbedder: "idle",     *)
(*              "await", "done" or "failed"; the instance its init call    *)
(*              creates; the instance it returned                          *)
(*   batchCalls the tool_calls of one chat_batch, each a list of hunks     *)
(*   tasks      the started calls of the batch; batchPc "idle", "start",   *)
(*              "running"                                                  *)
(*   worktree, filesTable, chunksTable   the files of the worktree and     *)
(*              the two tables of the semantic index                       *)
(*   mode, targets, pos, pending   one run of ensureSemanticIndex: its     *)
(*              mode, its targets, the loop position, the chunks awaiting  *)
(*              their embeddings                                           *)
(*   indexPc    "idle", "loop", "embed", "returned" or "threw"             *)
(*   clock, runs   the time of the last write; the runs started so far     *)
(***************************************************************************)
VARIABLES seekLines, seekPattern, seekStart, seekResult,
          patchText, parsed,
          hunks, resolved, disk, disk0, idx, pc, added, modified, deleted,
          editOld, editNew, editAll, editPc,
          embedder, inits, callPc, callInit, callResult,
          batchCalls, tasks, batchPc,
          worktree, filesTable, chunksTable, mode, targets, pos, pending, indexPc, clock, runs

seekVars == <<seekLines, seekPattern, seekStart, seekResult>>
parseVars == <<patchText, parsed>>
patchVars == <<hunks, resolved, disk, disk0, idx, pc, added, modified, deleted>>
editVars == <<editOld, editNew, editAll, editPc>>
embedVars == <<embedder, inits, callPc, callInit, callResult>>
batchVars == <<batchCalls, tasks, batchPc>>
indexVars == <<worktree, filesTable, chunksTable, mode, targets, pos, pending, indexPc, clock, runs>>
otherVars == <<editVars, embedVars, batchVars, indexVars>>
vars == <<seekVars, parseVars, patchVars, otherVars>>

(***************************************************************************)
(* Bounds and input universes.                                             *)
(***************************************************************************)

MaxHunks == 3
MaxLines == 3
MaxChunks == 2
MaxSeekLines == 4
MaxPatchLines == 4
MaxBodyLines == 4
MaxEditLen == 3
MaxCallers == 3
MaxCalls == 2
MaxCallHunks == 2
MaxClock == 4
MaxRuns == 2

SeqsUpTo(S, n) == UNION {[1..k -> S] : k \in 0..n}

\* lines of files and chunks
A == <<"a">>
B == <<"b">>
X == <<"x">>
E == <<>>

NotStarted == [ok |-> FALSE, hunks |-> <<>>]
NoResult == <<>>
NotParsed == [ok |-> FALSE, hunks |-> <<"not parsed">>]
EmptyDisk == [files |-> <<>>, dirs |-> {Root}, readonly |-> {}]

SeekIdle ==
  /\ seekLines = <<>> /\ seekPattern = <<>> /\ seekStart = 0 /\ seekResult = NoResult

ParseIdle == patchText = <<>> /\ parsed = NotStarted

EditIdle == editOld = <<>> /\ editNew = <<>> /\ editAll = FALSE /\ editPc = "idle"

\* the module-level embedder handle before any call (embedder.ts line 10)
Null == 0
Callers == 1..MaxCallers

EmbedIdle ==
  /\ embedder = Null /\ inits = 0
  /\ callPc = [c \in Callers |-> "idle"]
  /\ callInit = [c \in Callers |-> Null]
  /\ callResult = [c \in Callers |-> Null]

BatchIdle == batchCalls = <<>> /\ tasks = <<>> /\ batchPc = "idle"

IndexIdle ==
  /\ worktree = <<>> /\ filesTable = <<>> /\ chunksTable = <<>>
  /\ mode = "changed" /\ targets = <<>> /\ pos = 0 /\ pending = <<>>
  /\ indexPc = "idle" /\ clock = 0 /\ runs = 0

OtherIdle == EditIdle /\ EmbedIdle /\ BatchIdle /\ IndexIdle

PatchIdle ==
  /\ hunks = <<>> /\ resolved = <<>> /\ disk = EmptyDisk /\ disk0 = EmptyDisk
  /\ idx = 0 /\ pc = "idle" /\ added = <<>> /\ modified = <<>> /\ deleted = <<>>

(***************************************************************************)
(* chat_patch: run, then applyHunksToFiles hunk by hunk.                   *)
(***************************************************************************)

BaseDir == <<<<"base">>>>

\* a variant that catches the error of a hunk and goes on with the loop
loopControlSwallow(ok, k, n) ==
  IF k >= n THEN "done" ELSE "loop"

\* the for..of loop of applyHunksToFiles: an error thrown in the body leaves
\* the loop and the function; otherwise the loop goes on to the next hunk
loopControl(ok, k, n) ==
  IF ~ok THEN "failed" ELSE IF k >= n THEN "done" ELSE "loop"

\* run: the hunks are resolved and applyHunksToFiles is entered; it throws
\* "No files were modified." on an empty list
Run ==
  /\ pc = "start"
  /\ resolved' = resolveHunks(BaseDir, hunks)
  /\ idx' = 1
  /\ pc' = IF Len(hunks) = 0 THEN "failed" ELSE "loop"
  /\ UNCHANGED <<hunks, disk, disk0, added, modified, deleted, seekVars, otherVars, parseVars>>

\* run, line 11: parsePatch on the patch text; its error leaves run
ParseStep ==
  /\ pc = "parse"
  /\ parsed' = parsePatch(patchText)
  /\ hunks' = parsed'.hunks
  /\ pc' = IF parsed'.ok THEN "start" ELSE "failed"
  /\ UNCHANGED <<patchText, resolved, disk, disk0, idx, added, modified, deleted, seekVars, otherVars>>

\* what one iteration of the loop leaves behind, r being the body's result
Commit(r) ==
  /\ disk' = r.disk
  /\ added' = IF r.ok /\ r.list = "added" THEN Append(added, r.path) ELSE added
  /\ modified' = IF r.ok /\ r.list = "modified" THEN Append(modified, r.path) ELSE modified
  /\ deleted' = IF r.ok /\ r.list = "deleted" THEN Append(deleted, r.path) ELSE deleted
  /\ pc' = loopControl(r.ok, idx, Len(resolved))
  /\ idx' = IF r.ok THEN idx + 1 ELSE idx
  /\ UNCHANGED <<hunks, resolved, disk0, seekVars, otherVars, parseVars>>

\* one iteration of the loop, on the hunk at idx, by the hunk's type
ApplyAddStep ==
  /\ pc = "loop"
  /\ resolved[idx].type = "add"
  /\ Commit(applyHunk(disk, resolved[idx]))

ApplyDeleteStep ==
  /\ pc = "loop"
  /\ resolved[idx].type = "delete"
  /\ Commit(applyHunk(disk, resolved[idx]))

ApplyUpdateStep ==
  /\ pc = "loop"
  /\ resolved[idx].type = "update"
  /\ Commit(applyHunk(disk, resolved[idx]))

(***************************************************************************)
(* Spec: chat_patch on a list of up to MaxHunks hunks over three files of  *)
(* the base directory: a, ro/c (ro may be read-only) and n/d (n does not   *)
(* exist yet).                                                             *)
(***************************************************************************)

PathA == <<"a">>
PathDotA == <<Dot, Slash, "a">>
PathRoC == <<"ro", Slash, "c">>
PathND == <<"n", Slash, "d">>

\* a path that leaves the base directory
PathOut == <<Dot, Dot, Slash, "o">>

AtoB == <<UpdateChunk(<<A>>, <<B>>, Undefined, FALSE)>>

SampleHunks ==
  { AddHunk(PathA, A), AddHunk(PathND, A), AddHunk(PathRoC, A), AddHunk(PathOut, A),
    DeleteHunk(PathA), DeleteHunk(PathRoC),
    UpdateHunk(PathA, Undefined, AtoB), UpdateHunk(PathND, Undefined, AtoB),
    UpdateHunk(PathA, <<PathND>>, AtoB), UpdateHunk(PathA, <<PathDotA>>, AtoB),
    UpdateHunk(PathRoC, <<PathA>>, AtoB), UpdateHunk(PathA, <<PathRoC>>, AtoB) }

RoDir == BaseDir \o <<<<"ro">>>>

SampleDisks ==
  { [files |-> [q \in present |-> <<"a", NL>>],
     dirs |-> {Root, BaseDir, RoDir},
     readonly |-> ro] :
       present \in SUBSET {pathResolve(BaseDir, PathA), pathResolve(BaseDir, PathRoC)},
       ro \in {{}, {RoDir}} }

Init ==
  /\ OtherIdle
  /\ SeekIdle /\ ParseIdle
  /\ hunks \in SeqsUpTo(SampleHunks, MaxHunks)
  /\ disk \in SampleDisks
  /\ disk0 = disk
  /\ resolved = <<>> /\ idx = 0 /\ pc = "start"
  /\ added = <<>> /\ modified = <<>> /\ deleted = <<>>

Next == Run \/ ApplyAddStep \/ ApplyDeleteStep \/ ApplyUpdateStep

Spec == Init /\ [][Next]_vars

(***************************************************************************)
(* SpecUpdate: chat_patch on one Update hunk of up to MaxChunks chunks     *)
(* against one file f of up to MaxLines lines.                             *)
(***************************************************************************)

PathF == <<"f">>
FileF == pathResolve(BaseDir, PathF)

FileLineSet == {A, B, E}

\* every text of up to MaxLines lines, with and without a final newline
SampleContents ==
  {JoinNL(ls) \o t : ls \in SeqsUpTo(FileLineSet, MaxLines), t \in {<<>>, <<NL>>}}

SampleChunks ==
  { UpdateChunk(<<A>>, <<X>>, Undefined, FALSE),
    UpdateChunk(<<B>>, <<X>>, Undefined, FALSE),
    UpdateChunk(<<A>>, <<>>, Undefined, FALSE),
    UpdateChunk(<<B>>, <<>>, Undefined, FALSE),
    UpdateChunk(<<A, B>>, <<X>>, Undefined, FALSE),
    UpdateChunk(<<A>>, <<X>>, <<B>>, FALSE),
    UpdateChunk(<<B>>, <<X>>, <<A>>, FALSE),
    UpdateChunk(<<A>>, <<X>>, <<A>>, FALSE),
    UpdateChunk(<<>>, <<X>>, <<A>>, FALSE),
    UpdateChunk(<<>>, <<B>>, <<A>>, FALSE),
    UpdateChunk(<<>>, <<X>>, Undefined, FALSE),
    UpdateChunk(<<>>, <<B>>, Undefined, FALSE),
    UpdateChunk(<<A>>, <<A>>, Undefined, FALSE),
    UpdateChunk(<<A, E>>, <<X, E>>, Undefined, FALSE),
    UpdateChunk(<<A>>, <<X, E>>, Undefined, FALSE),
    UpdateChunk(<<A>>, <<A, X>>, Undefined, FALSE),
    UpdateChunk(<<E>>, <<>>, Undefined, FALSE) }

InitUpdate ==
  /\ OtherIdle
  /\ SeekIdle /\ ParseIdle
  /\ \E chunks \in SeqsUpTo(SampleChunks, MaxChunks) :
       hunks = <<UpdateHunk(PathF, Undefined, chunks)>>
  /\ \E content \in SampleContents :
       disk = [files |-> [q \in {FileF} |-> content], dirs |-> {Root, BaseDir}, readonly |-> {}]
  /\ disk0 = disk
  /\ resolved = <<>> /\ idx = 0 /\ pc = "start"
  /\ added = <<>> /\ modified = <<>> /\ deleted = <<>>

NextUpdate == Run \/ ApplyUpdateStep

SpecUpdate == InitUpdate /\ [][NextUpdate]_vars

(***************************************************************************)
(* SpecTwice: the same Update hunk of up to MaxChunks chunks applied twice *)
(* in a row to the file f: the second application reads what the first     *)
(* wrote.                                                                  *)
(***************************************************************************)

InitTwice ==
  /\ OtherIdle
  /\ SeekIdle /\ ParseIdle
  /\ \E chunks \in SeqsUpTo(SampleChunks, MaxChunks) :
       hunks = <<UpdateHunk(PathF, Undefined, chunks), UpdateHunk(PathF, Undefined, chunks)>>
  /\ \E content \in SampleContents :
       disk = [files |-> [q \in {FileF} |-> content], dirs |-> {Root, BaseDir}, readonly |-> {}]
  /\ disk0 = disk
  /\ resolved = <<>> /\ idx = 0 /\ pc = "start"
  /\ added = <<>> /\ modified = <<>> /\ deleted = <<>>

NextTwice == Run \/ ApplyUpdateStep

SpecTwice == InitTwice /\ [][NextTwice]_vars

(***************************************************************************)
(* SpecChunks: chat_patch on a patch text with one Update hunk for the     *)
(* file f (content "a\n"): the Begin marker, the Update File header, up to *)
(* MaxBodyLines body lines, the End marker (as it is or indented) and      *)
(* possibly a line after it.                                               *)
(***************************************************************************)

BodyLineSet ==
  { <<AtAt>>, <<AtAt, Space, "a">>, <<Space, "a">>, <<Minus, "a">>, <<Plus, "b">>,
    <<>>, <<"x", "a">>, <<EndOfFile>> }

EndLineSet == { <<EndPatch>>, <<Space, EndPatch>> }

TailSet == { <<>>, << <<Plus, "t">> >> }

InitChunks ==
  /\ OtherIdle
  /\ SeekIdle
  /\ \E body \in SeqsUpTo(BodyLineSet, MaxBodyLines), end \in EndLineSet, tail \in TailSet :
       patchText = JoinNL(<< <<BeginPatch>>, <<UpdateFile, Colon, Space, "f">> >>
                          \o body \o <<end>> \o tail)
  /\ parsed = NotParsed
  /\ hunks = <<>>
  /\ disk = [files |-> [q \in {FileF} |-> <<"a", NL>>], dirs |-> {Root, BaseDir}, readonly |-> {}]
  /\ disk0 = disk
  /\ resolved = <<>> /\ idx = 0 /\ pc = "parse"
  /\ added = <<>> /\ modified = <<>> /\ deleted = <<>>

NextChunks == ParseStep \/ Run \/ ApplyUpdateStep

SpecChunks == InitChunks /\ [][NextChunks]_vars

(***************************************************************************)
(* SpecAdd: chat_patch on a patch text with one Add hunk in an empty base  *)
(* directory: the Begin marker, an Add File header (its path with or       *)
(* without a colon in it), up to MaxBodyLines body lines and the End       *)
(* marker.                                                                 *)
(***************************************************************************)

AddHeaderSet ==
  { <<AddFile, Colon, Space, "a">>, <<AddFile, Colon, Space, "a", Colon, "b">> }

AddBodySet ==
  { <<Plus, "b">>, <<Plus, "a">>, <<Plus>>, <<>>, <<"x", "a">>, <<Space, Plus, "a">> }

InitAdd ==
  /\ OtherIdle
  /\ SeekIdle
  /\ \E header \in AddHeaderSet, body \in SeqsUpTo(AddBodySet, MaxBodyLines) :
       patchText = JoinNL(<< <<BeginPatch>>, header >> \o body \o << <<EndPatch>> >>)
  /\ parsed = NotParsed
  /\ hunks = <<>>
  /\ disk = [files |-> <<>>, dirs |-> {Root, BaseDir}, readonly |-> {}]
  /\ disk0 = disk
  /\ resolved = <<>> /\ idx = 0 /\ pc = "parse"
  /\ added = <<>> /\ modified = <<>> /\ deleted = <<>>

NextAdd == ParseStep \/ Run \/ ApplyAddStep

SpecAdd == InitAdd /\ [][NextAdd]_vars

(***************************************************************************)
(* SpecEdit: one chat_edit call on the file f, whose content has up to     *)
(* MaxEditLen characters (or which does not exist).                        *)
(***************************************************************************)

EditChars == {"a", "b"}

\* run of chat_edit: resolvePath, readFile, replaceOnce, writeFile
EditRun ==
  /\ editPc = "start"
  /\ LET target == resolvePath(BaseDir, PathF)
         content == fsReadFile(disk, target.path)
         updated == replaceOnce(content.content, editOld, editNew, editAll)
         written == fsWriteFile(disk, target.path, updated.value)
         ok == target.ok /\ content.ok /\ updated.ok /\ written.ok
     IN  /\ disk' = IF ok THEN written.disk ELSE disk
         /\ editPc' = IF ok THEN "done" ELSE "failed"
  /\ UNCHANGED <<editOld, editNew, editAll, seekVars, parseVars,
                 hunks, resolved, disk0, idx, pc, added, modified, deleted,
                 embedVars, batchVars, indexVars>>

InitEdit ==
  /\ SeekIdle /\ ParseIdle
  /\ hunks = <<>> /\ resolved = <<>> /\ idx = 0 /\ pc = "idle"
  /\ added = <<>> /\ modified = <<>> /\ deleted = <<>>
  /\ \E present \in SUBSET {FileF}, content \in SeqsUpTo(EditChars, MaxEditLen) :
       disk = [files |-> [q \in present |-> content], dirs |-> {Root, BaseDir}, readonly |-> {}]
  /\ disk0 = disk
  /\ editOld \in SeqsUpTo(EditChars, 2)
  /\ editNew \in SeqsUpTo(EditChars, 2)
  /\ editAll \in BOOLEAN
  /\ editPc = "start"
  /\ EmbedIdle /\ BatchIdle /\ IndexIdle

NextEdit == EditRun

SpecEdit == InitEdit /\ [][NextEdit]_vars

(***************************************************************************)
(* SpecSeek: one call of seekSequence on up to MaxSeekLines lines.         *)
(***************************************************************************)

InitSeek ==
  /\ OtherIdle
  /\ ParseIdle /\ PatchIdle
  /\ seekLines \in SeqsUpTo({A, B}, MaxSeekLines)
  /\ seekPattern \in SeqsUpTo({A, B}, MaxSeekLines)
  /\ seekStart \in 0..(MaxSeekLines + 1)
  /\ seekResult = NoResult

Seek ==
  /\ seekResult = NoResult
  /\ seekResult' = <<seekSequence(seekLines, seekPattern, seekStart)>>
  /\ UNCHANGED <<seekLines, seekPattern, seekStart, parseVars, patchVars, otherVars>>

NextSeek == Seek

SpecSeek == InitSeek /\ [][NextSeek]_vars

(***************************************************************************)
(* SpecParse: one call of parsePatch on a text of up to MaxPatchLines      *)
(* lines.                                                                  *)
(***************************************************************************)

SampleLines ==
  { <<BeginPatch>>, <<Space, BeginPatch>>, <<EndPatch>>, <<EndPatch, Space>>,
    <<AddFile, Colon, Space, "a">>, <<Plus, "b">>, <<DeleteFile, Colon, Space, "a">>,
    <<>> }

InitParse ==
  /\ OtherIdle
  /\ SeekIdle /\ PatchIdle
  /\ \E ls \in SeqsUpTo(SampleLines, MaxPatchLines) : patchText = JoinNL(ls)
  /\ parsed = NotParsed

Parse ==
  /\ parsed = NotParsed
  /\ parsed' = parsePatch(patchText)
  /\ UNCHANGED <<patchText, seekVars, otherVars, patchVars>>

NextParse == Parse

SpecParse == InitParse /\ [][NextParse]_vars

(***************************************************************************)
(* Vocabulary of the properties of SpecUpdate.                             *)
(***************************************************************************)

\* the chunks of the one Update hunk, the lines of f when run started, and
\* the content of f now
TheChunks == hunks[1].chunks
LinesBefore == originalLinesOf(disk0.files[FileF])
ContentNow == disk.files[FileF]
Finished == pc \in {"done", "failed"}

\* the 0-based positions at which pat occurs in lines, as a set
Occurrences(lines, pat) ==
  {i \in 0..(Len(lines) - Len(pat)) : \A j \in 1..Len(pat) : lines[i + j] = pat[j]}

OccurrencesFrom(lines, pat, from) == {i \in Occurrences(lines, pat) : i >= from}

MinOf(S) == CHOOSE m \in S : \A n \in S : m <= n

\* lines with the n lines at 0-based position at replaced by new
ReplaceSpan(lines, at, n, new) ==
  SubSeq(lines, 1, at) \o new \o SubSeq(lines, at + n + 1, Len(lines))

\* a text of newline-terminated lines
RECURSIVE Unlines(_)
Unlines(lines) ==
  IF Len(lines) = 0 THEN <<>> ELSE lines[1] \o <<NL>> \o Unlines(Tail(lines))

\* the text Update writes for a line array: every line newline-terminated,
\* except that a final empty line is written without its terminator
WrittenText(lines) ==
  IF Len(lines) > 0 /\ lines[Len(lines)] = <<>>
  THEN Unlines(SubSeq(lines, 1, Len(lines) - 1))
  ELSE Unlines(lines)

\* one chunk with non-empty old_lines that occur exactly once in the file
SingleUniqueChunk ==
  /\ Len(TheChunks) = 1
  /\ Len(TheChunks[1].old_lines) > 0
  /\ Cardinality(Occurrences(LinesBefore, TheChunks[1].old_lines)) = 1

UniqueAt == MinOf(Occurrences(LinesBefore, TheChunks[1].old_lines))

SpanReplaced ==
  ReplaceSpan(LinesBefore, UniqueAt, Len(TheChunks[1].old_lines), TheChunks[1].new_lines)

\* the chunk's change_context, if any, occurs at or before the span
ContextNotAfterSpan ==
  LET ctx == TheChunks[1].change_context
  IN  Truthy(ctx) => OccurrencesFrom(LinesBefore, <<ctx[1]>>, 0) # {}
                     /\ MinOf(OccurrencesFrom(LinesBefore, <<ctx[1]>>, 0)) <= UniqueAt

Prefix(k) == computeReplacements(LinesBefore, SubSeq(TheChunks, 1, k))

\* every chunk has no change_context and non-empty old_lines that occur exactly
\* once, and the spans they occur at are disjoint and listed top to bottom
TopToBottom ==
  /\ Len(TheChunks) >= 2
  /\ \A k \in 1..Len(TheChunks) :
       /\ ~Truthy(TheChunks[k].change_context)
       /\ Len(TheChunks[k].old_lines) > 0
       /\ Cardinality(Occurrences(LinesBefore, TheChunks[k].old_lines)) = 1
  /\ \A k \in 1..(Len(TheChunks) - 1) :
       MinOf(Occurrences(LinesBefore, TheChunks[k].old_lines)) + Len(TheChunks[k].old_lines)
         <= MinOf(Occurrences(LinesBefore, TheChunks[k + 1].old_lines))

\* the lines with the spans of the first k chunks replaced, the last one first
RECURSIVE AllReplaced(_, _)
AllReplaced(lines, k) ==
  IF k = 0 THEN lines
  ELSE AllReplaced(ReplaceSpan(lines, MinOf(Occurrences(LinesBefore, TheChunks[k].old_lines)),
                               Len(TheChunks[k].old_lines), TheChunks[k].new_lines),
                   k - 1)

\* chunk k's old_lines, or its change_context, occur in the file, and only
\* before the position the match of the chunks before it ended at
OnlyBehindCursor(k) ==
  LET c == Prefix(k - 1).lineIndex
      old == TheChunks[k].old_lines
      ctx == TheChunks[k].change_context
  IN  /\ Prefix(k - 1).ok
      /\ \/ /\ Len(old) > 0
            /\ Occurrences(LinesBefore, old) # {}
            /\ OccurrencesFrom(LinesBefore, old, c) = {}
         \/ /\ Truthy(ctx)
            /\ Occurrences(LinesBefore, <<ctx[1]>>) # {}
            /\ OccurrencesFrom(LinesBefore, <<ctx[1]>>, c) = {}

\* chunk k's old_lines end with an empty line and, without it, are non-empty
\* and occur at or after the cursor: the retry of computeReplacements finds them
RetryWouldMatch(k) ==
  LET c == Prefix(k - 1).lineIndex
      old == TheChunks[k].old_lines
      stripped == SubSeq(old, 1, Len(old) - 1)
  IN  /\ Len(old) > 1
      /\ old[Len(old)] = <<>>
      /\ OccurrencesFrom(LinesBefore, stripped, c) # {}

\* C4 as stated: chunks on disjoint spans listed top to bottom are all applied,
\* and a chunk whose old_lines or change_context occur only before the cursor
\* makes the Update fail with the file unmodified
C4_AsStated ==
  /\ (Finished /\ TopToBottom) =>
       (pc = "done" /\ ContentNow = WrittenText(AllReplaced(LinesBefore, Len(TheChunks))))
  /\ (Finished /\ \E k \in 2..Len(TheChunks) : OnlyBehindCursor(k)) =>
       (pc = "failed" /\ disk = disk0)

\* C4 amended: as stated, except that a chunk whose old_lines end with an empty
\* line fails only if old_lines without that line do not occur at or after the
\* cursor either
C4_ForwardOnly ==
  /\ (Finished /\ TopToBottom) =>
       (pc = "done" /\ ContentNow = WrittenText(AllReplaced(LinesBefore, Len(TheChunks))))
  /\ (Finished /\ \E k \in 2..Len(TheChunks) : OnlyBehindCursor(k) /\ ~RetryWouldMatch(k)) =>
       (pc = "failed" /\ disk = disk0)

\* C4's case: the chunk for line b listed before the chunk for line a, on a
\* file whose lines are a, b: the Update failed and the file is as it was
C4_Witness ==
  /\ pc = "failed"
  /\ disk = disk0
  /\ LinesBefore = <<A, B>>
  /\ Len(TheChunks) = 2
  /\ TheChunks[1].old_lines = <<B>>
  /\ TheChunks[2].old_lines = <<A>>
  /\ OnlyBehindCursor(2)

\* taken in ascending start order, each replacement ends at or before the next
NonOverlapping(replacements) ==
  \A i \in 1..(Len(replacements) - 1) :
    replacements[i][1] + replacements[i][2] <= replacements[i + 1][1]

\* C5: the replacements of every successful computeReplacements are pairwise
\* non-overlapping
C5_NonOverlapping ==
  pc = "done" => NonOverlapping(computeReplacements(LinesBefore, TheChunks).replacements)

\* C6: the content a successful Update writes is not empty, ends with a
\* newline and does not end with two newlines
C6_OneTrailingNewline ==
  pc = "done" =>
    /\ Len(ContentNow) > 0
    /\ ContentNow[Len(ContentNow)] = NL
    /\ ~(Len(ContentNow) > 1 /\ ContentNow[Len(ContentNow) - 1] = NL)

\* the position chunk k's old_lines are searched from: the cursor, or the
\* lowest position of its change_context at or after the cursor
SearchStart(k) ==
  LET c == Prefix(k - 1).lineIndex
      ctx == TheChunks[k].change_context
  IN  IF Truthy(ctx) THEN MinOf(OccurrencesFrom(LinesBefore, <<ctx[1]>>, c)) ELSE c

ContextFound(k) ==
  Truthy(TheChunks[k].change_context) =>
    OccurrencesFrom(LinesBefore, <<TheChunks[k].change_context[1]>>, Prefix(k - 1).lineIndex) # {}

\* chunk k's change_context or old_lines occur at more than one position at or
\* after the cursor
Ambiguous(k) ==
  LET c == Prefix(k - 1).lineIndex
      old == TheChunks[k].old_lines
      ctx == TheChunks[k].change_context
  IN  /\ Prefix(k - 1).ok
      /\ \/ Truthy(ctx) /\ Cardinality(OccurrencesFrom(LinesBefore, <<ctx[1]>>, c)) > 1
         \/ Len(old) > 0 /\ Cardinality(OccurrencesFrom(LinesBefore, old, c)) > 1

\* C9 as stated: an ambiguous chunk makes the Update fail, the file unchanged
C9_AsStated ==
  (Finished /\ \E k \in 1..Len(TheChunks) : Ambiguous(k)) =>
    (pc = "failed" /\ disk = disk0)

\* C9 amended: an ambiguous chunk is not rejected; its change_context is taken
\* at its lowest position at or after the cursor and its old_lines at their
\* lowest position at or after that one, and the file is changed there
C9_LowestPositionChosen ==
  Finished =>
    /\ \A k \in 1..Len(TheChunks) :
         LET old == TheChunks[k].old_lines
         IN  (/\ Ambiguous(k)
              /\ ContextFound(k)
              /\ (Len(old) > 0 => OccurrencesFrom(LinesBefore, old, SearchStart(k)) # {}))
             => /\ Prefix(k).ok
                /\ Prefix(k).lineIndex =
                     IF Len(old) = 0 THEN SearchStart(k)
                     ELSE MinOf(OccurrencesFrom(LinesBefore, old, SearchStart(k))) + Len(old)
    /\ (/\ Len(TheChunks) = 1
        /\ Ambiguous(1)
        /\ ~Truthy(TheChunks[1].change_context))
       => /\ pc = "done"
          /\ ContentNow =
               WrittenText(ReplaceSpan(LinesBefore,
                                       MinOf(Occurrences(LinesBefore, TheChunks[1].old_lines)),
                                       Len(TheChunks[1].old_lines), TheChunks[1].new_lines))

\* C9's case: old_lines a occur twice in the file a, a; the first a was replaced
C9_Witness ==
  /\ pc = "done"
  /\ Len(TheChunks) = 1
  /\ Ambiguous(1)
  /\ disk0.files[FileF] = <<"a", NL, "a", NL>>
  /\ TheChunks[1] = UpdateChunk(<<A>>, <<X>>, Undefined, FALSE)
  /\ ContentNow = <<"x", NL, "a", NL>>

(***************************************************************************)
(* Chunks without old_lines.                                               *)
(***************************************************************************)

\* chunk k has no old_lines; it is an append when it has no change_context
\* either
IsInsertion(k) == Len(TheChunks[k].old_lines) = 0
IsAppend(k) == IsInsertion(k) /\ ~Truthy(TheChunks[k].change_context)

\* the new_lines of the appending chunks among the first k, in document order
RECURSIVE Appended(_)
Appended(k) ==
  IF k = 0 THEN <<>>
  ELSE Appended(k - 1) \o (IF IsAppend(k) THEN TheChunks[k].new_lines ELSE <<>>)

\* the chunks that are not appends
OtherChunks ==
  SelectSeq(TheChunks, LAMBDA c : Len(c.old_lines) > 0 \/ Truthy(c.change_context))

\* the replacement computeReplacements is to emit for chunk k without old_lines
EmptyOldReplacement(k) ==
  IF Truthy(TheChunks[k].change_context)
  THEN <<SearchStart(k), 1, TheChunks[k].new_lines>>
  ELSE <<Len(LinesBefore), 0, TheChunks[k].new_lines>>

\* the lines of the content of f now, as deriveNewContents would read them
LinesNow == originalLinesOf(ContentNow)

\* C11: for a chunk without old_lines computeReplacements emits (contextIndex,
\* 1, new_lines) when it has a change_context and (originalLines.length, 0,
\* new_lines) when it has none; so the new_lines of every such chunk are in
\* the file afterwards, alone in its hunk the first kind replaces exactly the
\* context line, and the new_lines of the appending chunks come after
\* everything else, in document order
C11_EmptyOldLines ==
  pc = "done" =>
    LET reps == computeReplacements(LinesBefore, TheChunks).replacements
    IN  /\ \A k \in 1..Len(TheChunks) :
             IsInsertion(k) =>
               /\ \E i \in 1..Len(reps) : reps[i] = EmptyOldReplacement(k)
               /\ Occurrences(LinesNow, TheChunks[k].new_lines) # {}
        /\ (Len(TheChunks) = 1 /\ IsInsertion(1) /\ ~IsAppend(1)) =>
             ContentNow =
               WrittenText(ReplaceSpan(LinesBefore, SearchStart(1), 1, TheChunks[1].new_lines))
        /\ ContentNow =
             WrittenText(applyReplacements(LinesBefore,
                                           computeReplacements(LinesBefore, OtherChunks).replacements)
                         \o Appended(Len(TheChunks)))

\* the number of lines equal to line
CountLine(lines, line) == Cardinality(Occurrences(lines, <<line>>))

\* C12: the @@ line only locates the change: after a successful Update of one
\* chunk whose change_context is not among its old_lines, the file holds the
\* line the anchor matched as often as before (new_lines not counted); a chunk
\* with an anchor and only '+' lines keeps the anchor line
C12_AnchorKept ==
  (/\ pc = "done"
   /\ Len(TheChunks) = 1
   /\ Truthy(TheChunks[1].change_context)
   /\ CountLine(TheChunks[1].old_lines, TheChunks[1].change_context[1]) = 0)
  => CountLine(LinesNow, TheChunks[1].change_context[1])
       >= CountLine(LinesBefore, TheChunks[1].change_context[1])

\* every chunk of the hunk has old_lines equal to its new_lines
AllChunksIdentity ==
  /\ Len(TheChunks) >= 1
  /\ \A k \in 1..Len(TheChunks) : TheChunks[k].old_lines = TheChunks[k].new_lines

\* C13: a successful Update whose chunks all have old_lines equal to new_lines
\* leaves the content of the file byte-identical
C13_IdentityNoOp ==
  (pc = "done" /\ AllChunksIdentity) => ContentNow = disk0.files[FileF]

\* the cursor after chunk k as the specification gives it, the cursor before it being
\* Prefix(k - 1).lineIndex: the position of the change_context for a chunk
\* without old_lines, else the end of the lowest match of old_lines (or of
\* old_lines without a trailing empty line) at or after the search start
CursorAfter(k) ==
  LET old == TheChunks[k].old_lines
      stripped == SubSeq(old, 1, Len(old) - 1)
      start == SearchStart(k)
  IN  IF Len(old) = 0 THEN start
      ELSE IF OccurrencesFrom(LinesBefore, old, start) # {}
      THEN MinOf(OccurrencesFrom(LinesBefore, old, start)) + Len(old)
      ELSE MinOf(OccurrencesFrom(LinesBefore, stripped, start)) + Len(stripped)

\* C28: the cursor of computeReplacements starts at 0 and never decreases; a
\* change_context puts it on the context line itself, a match of old_lines
\* puts it behind the matched lines, and a chunk without old_lines leaves it
\* where the context search put it
C28_CursorMonotone ==
  Finished =>
    /\ Prefix(0).lineIndex = 0
    /\ \A k \in 1..Len(TheChunks) :
         Prefix(k).ok =>
           /\ Prefix(k).lineIndex >= Prefix(k - 1).lineIndex
           /\ SearchStart(k) >= Prefix(k - 1).lineIndex
           /\ Prefix(k).lineIndex = CursorAfter(k)

\* C28's case: the chunk @@ a, -a, +x on the file b, a: the context is found at
\* line 1, old_lines match at that same line, and the cursor ends at 2
C28_Witness ==
  /\ pc = "done"
  /\ TheChunks = <<UpdateChunk(<<A>>, <<X>>, <<A>>, FALSE)>>
  /\ LinesBefore = <<B, A>>
  /\ SearchStart(1) = 1
  /\ Prefix(1).lineIndex = 2
  /\ ContentNow = <<"b", NL, "x", NL>>

(***************************************************************************)
(* getEmbedder (src/semantic/embedder.ts): callers of one process share    *)
(* the module variable embedder.  A call runs synchronously up to its      *)
(* await of FlagEmbedding.init and resumes when that promise settles;      *)
(* other calls run in between.  Instances are numbered in creation order.  *)
(***************************************************************************)

\* getEmbedder up to its first await: return the handle when it is set,
\* otherwise start FlagEmbedding.init
GetEmbedderEnter ==
  \E c \in Callers :
    /\ callPc[c] = "idle"
    /\ IF embedder # Null
       THEN /\ callResult' = [callResult EXCEPT ![c] = embedder]
            /\ callPc' = [callPc EXCEPT ![c] = "done"]
            /\ UNCHANGED <<inits, callInit>>
       ELSE /\ inits' = inits + 1
            /\ callInit' = [callInit EXCEPT ![c] = inits + 1]
            /\ callPc' = [callPc EXCEPT ![c] = "await"]
            /\ UNCHANGED callResult
    /\ UNCHANGED <<embedder, seekVars, parseVars, patchVars, editVars, batchVars, indexVars>>

\* FlagEmbedding.init resolves: the instance is assigned and returned
GetEmbedderResume ==
  \E c \in Callers :
    /\ callPc[c] = "await"
    /\ embedder' = callInit[c]
    /\ callResult' = [callResult EXCEPT ![c] = callInit[c]]
    /\ callPc' = [callPc EXCEPT ![c] = "done"]
    /\ UNCHANGED <<inits, callInit, seekVars, parseVars, patchVars, editVars, batchVars, indexVars>>

\* FlagEmbedding.init rejects: the call throws, the handle is not assigned
GetEmbedderReject ==
  \E c \in Callers :
    /\ callPc[c] = "await"
    /\ callPc' = [callPc EXCEPT ![c] = "failed"]
    /\ UNCHANGED <<embedder, inits, callInit, callResult,
                   seekVars, parseVars, patchVars, editVars, batchVars, indexVars>>

InitEmbed ==
  /\ SeekIdle /\ ParseIdle /\ EditIdle
  /\ hunks = <<>> /\ resolved = <<>> /\ idx = 0 /\ pc = "idle"
  /\ added = <<>> /\ modified = <<>> /\ deleted = <<>>
  /\ disk = EmptyDisk /\ disk0 = disk
  /\ EmbedIdle /\ BatchIdle /\ IndexIdle

NextEmbed == GetEmbedderEnter \/ GetEmbedderResume \/ GetEmbedderReject

SpecEmbed == InitEmbed /\ [][NextEmbed]_vars

(***************************************************************************)
(* chat_batch (createChatBatch.run) over chat_patch calls.  calls.map      *)
(* starts every call in list order, each running synchronously to its      *)
(* first await; from then on the calls advance independently: an awaited   *)
(* fs call acts on the disk, and later the call's continuation runs to its *)
(* next await.  A task is one call: its resolved hunks, the hunk k the     *)
(* loop of applyHunksToFiles is at, the fs call awaited (op), the content  *)
(* derived for the hunk, and its state: "await" (fs call in flight),       *)
(* "resolved" / "rejected" (settled, continuation not yet run), "done"     *)
(* (run returned) or "failed" (run threw).                                 *)
(***************************************************************************)

Op(kind, p, content) == [kind |-> kind, path |-> p, content |-> content]

NoOp == Op("none", Root, <<>>)

Task(hs, k, state, op, content) ==
  [hunks |-> hs, k |-> k, state |-> state, op |-> op, content |-> content]

\* the loop body for hunk k from its top to its first await: an update hunk
\* reads the file and derives the content synchronously
BeginHunk(d, t, k) ==
  IF k > Len(t.hunks) THEN [t EXCEPT !.k = k, !.state = "done", !.op = NoOp]
  ELSE LET hunk == t.hunks[k]
           r == fsReadFile(d, hunk.path)
           derived == deriveNewContents(r.content, hunk.chunks)
           moving == hunk.type = "update" /\ Truthy(hunk.move_path)
           target == IF moving THEN hunk.move_path[1] ELSE hunk.path
           content == IF hunk.type = "add" THEN hunk.contents
                      ELSE IF hunk.type = "update" THEN derived.content
                      ELSE <<>>
           first == IF hunk.type = "delete" THEN Op("unlink", hunk.path, <<>>)
                    ELSE IF (hunk.type = "add" \/ moving) /\ dirname(target) # Root
                         THEN Op("mkdir", dirname(target), <<>>)
                    ELSE Op("write", target, content)
       IN  IF hunk.type = "update" /\ (~r.ok \/ ~derived.ok)
           THEN [t EXCEPT !.k = k, !.state = "failed", !.op = NoOp]
           ELSE [t EXCEPT !.k = k, !.state = "await", !.op = first, !.content = content]

\* the continuation after the awaited fs call resolved, to the next await
AfterOpNoUnlink(d, t) ==
  LET hunk == t.hunks[t.k]
      moving == hunk.type = "update" /\ Truthy(hunk.move_path)
  IN  IF t.op.kind = "mkdir"
      THEN [t EXCEPT !.state = "await",
                     !.op = Op("write", IF moving THEN hunk.move_path[1] ELSE hunk.path,
                               t.content)]
      ELSE BeginHunk(d, t, t.k + 1)

AfterOp(d, t) ==
  LET hunk == t.hunks[t.k]
      moving == hunk.type = "update" /\ Truthy(hunk.move_path)
  IN  IF t.op.kind = "mkdir"
      THEN [t EXCEPT !.state = "await",
                     !.op = Op("write", IF moving THEN hunk.move_path[1] ELSE hunk.path,
                               t.content)]
      ELSE IF t.op.kind = "write" /\ moving
      THEN [t EXCEPT !.state = "await", !.op = Op("unlink", hunk.path, <<>>)]
      ELSE BeginHunk(d, t, t.k + 1)

\* the awaited fs call
fsCall(d, op) ==
  IF op.kind = "mkdir" THEN fsMkdir(d, op.path)
  ELSE IF op.kind = "write" THEN fsWriteFile(d, op.path, op.content)
  ELSE fsUnlink(d, op.path)

\* chat_patch's run up to its first await; an empty hunk list throws
StartCall(d, hs) ==
  LET t == Task(resolveHunks(BaseDir, hs), 0, "failed", NoOp, <<>>)
  IN  IF Len(hs) = 0 THEN t ELSE BeginHunk(d, t, 1)

patchRest == <<hunks, resolved, disk0, idx, pc, added, modified, deleted>>

\* run: tool_calls.slice(0, 10), then calls.map starts each call in order
BatchStart ==
  /\ batchPc = "start"
  /\ LET calls == Slice(batchCalls, 0, Min2(10, Len(batchCalls)))
     IN  tasks' = [i \in 1..Len(calls) |-> StartCall(disk, calls[i])]
  /\ batchPc' = "running"
  /\ UNCHANGED <<batchCalls, disk, patchRest, seekVars, parseVars, editVars, embedVars, indexVars>>

\* the fs call one task awaits acts on the disk and settles
BatchFsCall ==
  /\ batchPc = "running"
  /\ \E i \in 1..Len(tasks) :
       /\ tasks[i].state = "await"
       /\ LET r == fsCall(disk, tasks[i].op)
          IN  /\ disk' = r.disk
              /\ tasks' = [tasks EXCEPT ![i].state = IF r.ok THEN "resolved" ELSE "rejected"]
  /\ UNCHANGED <<batchCalls, batchPc, patchRest, seekVars, parseVars, editVars, embedVars, indexVars>>

\* the continuation of one task whose awaited call has settled
BatchResume ==
  /\ batchPc = "running"
  /\ \E i \in 1..Len(tasks) :
       /\ tasks[i].state \in {"resolved", "rejected"}
       /\ tasks' = [tasks EXCEPT ![i] =
                      IF @.state = "rejected" THEN [@ EXCEPT !.state = "failed"]
                      ELSE AfterOp(disk, @)]
  /\ UNCHANGED <<batchCalls, batchPc, disk, patchRest, seekVars, parseVars, editVars, embedVars, indexVars>>

PathB == <<"b">>
PathN == <<"n">>
PathNE == <<"n", Slash, "e">>

BatchHunks ==
  { AddHunk(PathA, A), AddHunk(PathND, A), AddHunk(PathNE, B), AddHunk(PathN, A),
    DeleteHunk(PathA), DeleteHunk(PathB),
    UpdateHunk(PathA, Undefined, AtoB), UpdateHunk(PathB, Undefined, AtoB),
    UpdateHunk(PathA, <<PathND>>, AtoB), UpdateHunk(PathB, <<PathNE>>, AtoB) }

\* the files a call names, resolved
CallPaths(hs) ==
  UNION {{pathResolve(BaseDir, p) : p \in NamedPaths(hs[k])} : k \in 1..Len(hs)}

\* the calls of the batch name pairwise disjoint files
DisjointFiles(calls) ==
  \A i, j \in 1..Len(calls) : i # j => CallPaths(calls[i]) \cap CallPaths(calls[j]) = {}

InitBatch ==
  /\ SeekIdle /\ ParseIdle /\ EditIdle /\ EmbedIdle /\ IndexIdle
  /\ hunks = <<>> /\ resolved = <<>> /\ idx = 0 /\ pc = "idle"
  /\ added = <<>> /\ modified = <<>> /\ deleted = <<>>
  /\ \E present \in SUBSET {pathResolve(BaseDir, PathA), pathResolve(BaseDir, PathB)} :
       disk = [files |-> [q \in present |-> <<"a", NL>>],
               dirs |-> {Root, BaseDir}, readonly |-> {}]
  /\ disk0 = disk
  /\ batchCalls \in SeqsUpTo(SeqsUpTo(BatchHunks, MaxCallHunks) \ {<<>>}, MaxCalls) \ {<<>>}
  /\ DisjointFiles(batchCalls)
  /\ tasks = <<>>
  /\ batchPc = "start"

NextBatch == BatchStart \/ BatchFsCall \/ BatchResume

SpecBatch == InitBatch /\ [][NextBatch]_vars

(***************************************************************************)
(* ensureSemanticIndex (semantic index).  The worktree maps each existing  *)
(* file to [mtimeMs, size, blank, nul, nchunks]: its modification time in  *)
(* half milliseconds (stat.mtimeMs has a fraction), its size in bytes,     *)
(* whether its text trims to nothing, whether it holds a NUL, and the      *)
(* number of chunks chunkFile cuts it into.  A file's content is           *)
(* identified by the time it was written.  filesTable is the table files   *)
(* (path -> mtime), chunksTable the rows of the table chunks in insertion  *)
(* order; a row is [path, ver, i, of]: chunk i of the of chunks of the     *)
(* content written at ver.                                                 *)
(***************************************************************************)

MAX_FILE_BYTES == 1024 * 1024
MAX_CHUNKS_PER_FILE == 200

IndexPaths == {"p", "q"}

\* Math.floor(stat.mtimeMs), mtimeMs counted in half milliseconds
FloorMs(t) == t \div 2

\* the contents a file is given: plain text of one or two chunks, blank
\* text, text with a NUL, text of too many chunks, a file over the byte limit
Contents ==
  { [size |-> 1, blank |-> FALSE, nul |-> FALSE, nchunks |-> 1],
    [size |-> 2, blank |-> FALSE, nul |-> FALSE, nchunks |-> 2],
    [size |-> 1, blank |-> TRUE, nul |-> FALSE, nchunks |-> 1],
    [size |-> 1, blank |-> FALSE, nul |-> TRUE, nchunks |-> 1],
    [size |-> MAX_CHUNKS_PER_FILE + 1, blank |-> FALSE, nul |-> FALSE,
     nchunks |-> MAX_CHUNKS_PER_FILE + 1],
    [size |-> MAX_FILE_BYTES + 1, blank |-> FALSE, nul |-> FALSE, nchunks |-> 2] }

FileOf(content, t) ==
  [mtimeMs |-> t, size |-> content.size, blank |-> content.blank,
   nul |-> content.nul, nchunks |-> content.nchunks]

\* chunkFile: every chunk carries the path of the file
chunkFile(filePath, file) ==
  [i \in 1..file.nchunks |->
     [path |-> filePath, ver |-> file.mtimeMs, i |-> i, of |-> file.nchunks]]

\* the files glob.scan yields, in the order it yields them
ScanOrder(S) ==
  (IF "p" \in S THEN <<"p">> ELSE <<>>) \o (IF "q" \in S THEN <<"q">> ELSE <<>>)

\* collectTargets: files over the byte limit are left out, and in changed
\* mode the files whose stored mtime is the floor of their current mtime
IsTarget(wt, ft, m, path) ==
  /\ wt[path].size <= MAX_FILE_BYTES
  /\ ~(m = "changed" /\ path \in DOMAIN ft /\ ft[path] = FloorMs(wt[path].mtimeMs))

collectTargets(wt, ft, m) ==
  LET scanned == ScanOrder(DOMAIN wt)
      kept == SelectSeq(scanned, LAMBDA path : IsTarget(wt, ft, m, path))
  IN  [k \in 1..Len(kept) |-> [absPath |-> kept[k], stat |-> wt[kept[k]]]]

\* DELETE FROM chunks WHERE path = ?
deleteChunks(rows, path) == SelectSeq(rows, LAMBDA row : row.path # path)

\* INSERT OR REPLACE INTO files (path, mtime) VALUES (?, ?)
upsertFile(ft, path, mtime) ==
  [q \in DOMAIN ft \cup {path} |-> IF q = path THEN mtime ELSE ft[q]]

indexRest == <<seekVars, parseVars, patchVars, editVars, embedVars, batchVars>>

IndexAtRest == indexPc \in {"idle", "returned", "threw"}

\* another program writes a file of the worktree while no run is under way
WriteFile ==
  /\ IndexAtRest
  /\ clock < MaxClock
  /\ \E path \in IndexPaths, content \in Contents :
       worktree' = [q \in DOMAIN worktree \cup {path} |->
                      IF q = path THEN FileOf(content, clock + 1) ELSE worktree[q]]
  /\ clock' = clock + 1
  /\ UNCHANGED <<filesTable, chunksTable, mode, targets, pos, pending, indexPc, runs, indexRest>>

\* another program removes a file of the worktree while no run is under way
RemoveFile ==
  /\ IndexAtRest
  /\ \E path \in DOMAIN worktree :
       worktree' = [q \in DOMAIN worktree \ {path} |-> worktree[q]]
  /\ UNCHANGED <<filesTable, chunksTable, mode, targets, pos, pending, indexPc, clock, runs,
                 indexRest>>

\* ensureSemanticIndex up to its loop: full mode empties both tables, the
\* targets are collected, and the run returns when there are none
StartIndex ==
  /\ IndexAtRest
  /\ runs < MaxRuns
  /\ runs' = runs + 1
  /\ \E m \in {"changed", "full"} :
       LET ft == IF m = "full" THEN <<>> ELSE filesTable
           rows == IF m = "full" THEN <<>> ELSE chunksTable
           found == collectTargets(worktree, ft, m)
       IN  /\ mode' = m
           /\ filesTable' = ft
           /\ chunksTable' = rows
           /\ targets' = found
           /\ pos' = 1
           /\ indexPc' = IF Len(found) = 0 THEN "returned" ELSE "loop"
  /\ pending' = <<>>
  /\ UNCHANGED <<worktree, clock, indexRest>>

\* where the loop goes after the target at pos
AfterTarget == IF pos >= Len(targets) THEN "returned" ELSE "loop"

\* the loop body up to the await of passageEmbed: the text is read, a file
\* that is blank, holds a NUL or gives no or too many chunks is passed
\* over, otherwise the chunk rows of the path are deleted
ReadTarget ==
  /\ indexPc = "loop"
  /\ LET target == targets[pos]
         file == worktree[target.absPath]
         chunks == chunkFile(target.absPath, file)
     IN  IF \/ file.blank \/ file.nul
            \/ Len(chunks) = 0 \/ Len(chunks) > MAX_CHUNKS_PER_FILE
         THEN /\ indexPc' = AfterTarget
              /\ pos' = pos + 1
              /\ UNCHANGED <<chunksTable, pending>>
         ELSE /\ chunksTable' = deleteChunks(chunksTable, target.absPath)
              /\ pending' = chunks
              /\ indexPc' = "embed"
              /\ UNCHANGED pos
  /\ UNCHANGED <<worktree, filesTable, mode, targets, clock, runs, indexRest>>

\* passageEmbed has yielded every batch: BEGIN, the chunk rows are
\* inserted, the mtime of the stat is stored, COMMIT
StoreTarget ==
  /\ indexPc = "embed"
  /\ chunksTable' = chunksTable \o pending
  /\ filesTable' = upsertFile(filesTable, targets[pos].absPath,
                              FloorMs(targets[pos].stat.mtimeMs))
  /\ pending' = <<>>
  /\ indexPc' = AfterTarget
  /\ pos' = pos + 1
  /\ UNCHANGED <<worktree, mode, targets, clock, runs, indexRest>>

\* passageEmbed throws (or the process is stopped while it is awaited): the
\* error leaves ensureSemanticIndex
EmbedThrows ==
  /\ indexPc = "embed"
  /\ pending' = <<>>
  /\ indexPc' = "threw"
  /\ UNCHANGED <<worktree, filesTable, chunksTable, mode, targets, pos, clock, runs, indexRest>>

InitIndex ==
  /\ SeekIdle /\ ParseIdle /\ EditIdle /\ EmbedIdle /\ BatchIdle
  /\ hunks = <<>> /\ resolved = <<>> /\ idx = 0 /\ pc = "idle"
  /\ added = <<>> /\ modified = <<>> /\ deleted = <<>>
  /\ disk = EmptyDisk /\ disk0 = disk
  /\ IndexIdle

NextIndex ==
  WriteFile \/ RemoveFile \/ StartIndex \/ ReadTarget \/ StoreTarget \/ EmbedThrows

SpecIndex == InitIndex /\ [][NextIndex]_vars

(***************************************************************************)
(* Properties of SpecTwice.                                                *)
(***************************************************************************)

\* the first application succeeded; the lines it left in the file
FirstApplied == Finished /\ idx >= 2
FirstContent == deriveNewContents(disk0.files[FileF], TheChunks).content
LinesAfterFirst == originalLinesOf(FirstContent)

\* the second application failed and left the file as the first wrote it
SecondRejected == pc = "failed" /\ idx = 2 /\ ContentNow = FirstContent

\* chunk k's old_lines do not occur in the lines the first application left,
\* and neither do they without a trailing empty line
OldLinesGone(k) ==
  LET old == TheChunks[k].old_lines
      stripped == SubSeq(old, 1, Len(old) - 1)
  IN  /\ Len(old) > 0
      /\ Occurrences(LinesAfterFirst, old) = {}
      /\ ~(Len(old) > 1 /\ old[Len(old)] = <<>> /\ Occurrences(LinesAfterFirst, stripped) # {})

\* C14 as stated: the second application of a hunk that applied once (its
\* chunks all having old_lines) always fails and leaves the file unchanged
C14_AsStated ==
  (/\ FirstApplied
   /\ Len(TheChunks) >= 1
   /\ \A k \in 1..Len(TheChunks) : Len(TheChunks[k].old_lines) > 0)
  => SecondRejected

\* C14 amended: the second application fails, the file unchanged, when the
\* old_lines of some chunk no longer occur in the file the first application
\* left
C14_ReapplyFails ==
  (FirstApplied /\ \E k \in 1..Len(TheChunks) : OldLinesGone(k)) => SecondRejected

\* C14's case: the chunk -a +x was applied to the file a, and its second
\* application failed on the file x
C14_Witness ==
  /\ SecondRejected
  /\ TheChunks = <<UpdateChunk(<<A>>, <<X>>, Undefined, FALSE)>>
  /\ disk0.files[FileF] = <<"a", NL>>
  /\ ContentNow = <<"x", NL>>
  /\ OldLinesGone(1)

(***************************************************************************)
(* Properties of SpecSeek and SpecParse.                                   *)
(***************************************************************************)

\* C2: seekSequence returns the lowest index at or after start at which the
\* pattern occurs, and -1 when the pattern is empty or there is none
C2_LowestMatch ==
  seekResult # NoResult =>
    seekResult[1] =
      IF Len(seekPattern) = 0 \/ OccurrencesFrom(seekLines, seekPattern, seekStart) = {}
      THEN -1
      ELSE MinOf(OccurrencesFrom(seekLines, seekPattern, seekStart))

\* C2's case: seek([a,b,a,b], [a,b], 1) returned 2
C2_Witness ==
  /\ seekLines = <<A, B, A, B>>
  /\ seekPattern = <<A, B>>
  /\ seekStart = 1
  /\ seekResult = <<2>>

\* the 1-based numbers of the lines of the text that trim to the marker
MarkerLines(text, marker) ==
  {i \in 1..Len(SplitNL(text)) : Trim(SplitNL(text)[i]) = <<marker>>}

MarkersMissingOrMisordered ==
  \/ MarkerLines(patchText, BeginPatch) = {}
  \/ MarkerLines(patchText, EndPatch) = {}
  \/ MinOf(MarkerLines(patchText, BeginPatch)) >= MinOf(MarkerLines(patchText, EndPatch))

\* C3: parsePatch fails, with no hunks, when no line trims to the Begin marker,
\* none trims to the End marker, or the first Begin is not before the first End
C3_MarkersRequired ==
  (parsed # NotParsed /\ MarkersMissingOrMisordered) =>
    (~parsed.ok /\ parsed.hunks = <<>>)

\* C3's case: a text whose End marker comes before its Begin marker was rejected
C3_Witness ==
  /\ parsed # NotParsed
  /\ ~parsed.ok
  /\ MarkerLines(patchText, BeginPatch) # {}
  /\ MarkerLines(patchText, EndPatch) # {}
  /\ MinOf(MarkerLines(patchText, BeginPatch)) > MinOf(MarkerLines(patchText, EndPatch))

\* C23: a text parsePatch accepts has exactly one line that trims to the Begin
\* marker
C23_SingleBeginMarker ==
  (parsed # NotParsed /\ parsed.ok) => Cardinality(MarkerLines(patchText, BeginPatch)) = 1

(***************************************************************************)
(* Properties of SpecChunks.                                               *)
(***************************************************************************)

\* the lines of the patch text, the 1-based number of the first line that
\* trims to the End marker, and the body of the hunk: the lines between the
\* Update File header (line 2) and that End line
PatchLines == SplitNL(patchText)
EndLineOf(lines) == MinOf({i \in 1..Len(lines) : Trim(lines[i]) = <<EndPatch>>})
BodyOf(lines) == SubSeq(lines, 3, EndLineOf(lines) - 1)
Body == BodyOf(PatchLines)
PlainEnd == LET lines == PatchLines IN lines[EndLineOf(lines)] = <<EndPatch>>
Parsed == parsed # NotParsed

\* the chunks parsePatch returned for the hunk
ParsedChunks == parsed.hunks[1].chunks

IsAnchor(line) == Len(line) > 0 /\ line[1] = AtAt
IsStarLine(line) == Len(line) > 0 /\ line[1] \in StarChars
IsChangeLine(line) == Len(line) > 0 /\ line[1] \in {Space, Minus, Plus}

\* the positions of the @@ lines in a body, the k-th of them, and the lines
\* from one @@ line to the next
Anchors(body) == {j \in 1..Len(body) : IsAnchor(body[j])}
NthAnchor(body, k) ==
  LET anchors == Anchors(body)
  IN  CHOOSE j \in anchors : Cardinality({i \in anchors : i < j}) = k - 1
SegmentOf(body, j) ==
  LET later == {i \in Anchors(body) : i > j}
  IN  SubSeq(body, j + 1, (IF later = {} THEN Len(body) + 1 ELSE MinOf(later)) - 1)

\* the change_context an @@ line carries
ContextOf(line) ==
  LET c == Trim(SubSeq(line, 2, Len(line))) IN IF c = <<>> THEN Undefined ELSE <<c>>

\* the old and the new lines the specification assigns to a sequence of body lines
RECURSIVE OldOf(_)
OldOf(lines) ==
  IF Len(lines) = 0 THEN <<>>
  ELSE (IF Len(lines[1]) > 0 /\ lines[1][1] \in {Space, Minus}
        THEN <<SubSeq(lines[1], 2, Len(lines[1]))>> ELSE <<>>) \o OldOf(Tail(lines))

RECURSIVE NewOf(_)
NewOf(lines) ==
  IF Len(lines) = 0 THEN <<>>
  ELSE (IF Len(lines[1]) > 0 /\ lines[1][1] \in {Space, Plus}
        THEN <<SubSeq(lines[1], 2, Len(lines[1]))>> ELSE <<>>) \o NewOf(Tail(lines))

\* C16: within a chunk the body lines are classified by their first character,
\* in order: ' ' to old_lines and new_lines, '-' to old_lines, '+' to
\* new_lines, each without that character; any other line, a blank one
\* included, goes to neither
C16_LineClassification ==
  Parsed =>
    LET body == Body
        chunks == ParsedChunks
    IN  (PlainEnd /\ \A j \in 1..Len(body) : ~IsStarLine(body[j])) =>
          /\ parsed.ok
          /\ Len(chunks) = Cardinality(Anchors(body))
          /\ \A k \in 1..Len(chunks) :
               /\ chunks[k].old_lines = OldOf(SegmentOf(body, NthAnchor(body, k)))
               /\ chunks[k].new_lines = NewOf(SegmentOf(body, NthAnchor(body, k)))

\* C16's case: the body @@, " a", "-a", "+b" gave one chunk with old_lines
\* a, a and new_lines a, b
C16_Witness ==
  /\ Parsed /\ PlainEnd
  /\ Body = << <<AtAt>>, <<Space, "a">>, <<Minus, "a">>, <<Plus, "b">> >>
  /\ Len(ParsedChunks) = 1
  /\ ParsedChunks[1].old_lines = <<A, A>>
  /\ ParsedChunks[1].new_lines = <<A, B>>

\* C17: every @@ line of the hunk's body gives exactly one chunk, the chunks
\* in the order of their @@ lines, also the @@ lines after an End of File line
C17_EveryAnchorOneChunk ==
  Parsed =>
    LET body == Body
        chunks == ParsedChunks
    IN  /\ Len(chunks) = Cardinality(Anchors(body))
        /\ \A k \in 1..Len(chunks) :
             chunks[k].change_context = ContextOf(body[NthAnchor(body, k)])

\* the lines of a segment before its first End of File line
BeforeEndOfFile(seg) ==
  LET at == {j \in 1..Len(seg) : seg[j] = <<EndOfFile>>}
  IN  IF at = {} THEN seg ELSE SubSeq(seg, 1, MinOf(at) - 1)

\* C18: a chunk whose body holds the line "*** End of File" ends at that line
\* and has is_end_of_file set; a chunk without that line has it not set
\* (stated for the first chunk of a hunk whose body begins with its @@ line)
C18_EndOfFileFlag ==
  Parsed =>
    LET body == Body
        chunks == ParsedChunks
    IN  (Len(body) > 0 /\ IsAnchor(body[1])) =>
          LET seg == SegmentOf(body, 1)
          IN  /\ Len(chunks) >= 1
              /\ chunks[1].old_lines = OldOf(BeforeEndOfFile(seg))
              /\ chunks[1].new_lines = NewOf(BeforeEndOfFile(seg))
              /\ chunks[1].is_end_of_file = (\E j \in 1..Len(seg) : seg[j] = <<EndOfFile>>)

\* the lines of a body before its first @@ line
Leading(body) ==
  LET anchors == Anchors(body)
  IN  IF anchors = {} THEN body ELSE SubSeq(body, 1, MinOf(anchors) - 1)

\* C19: ' ', '-' and '+' lines that no @@ line precedes give a chunk of their
\* own, the first of the hunk, that holds them
C19_AnchorOptional ==
  Finished =>
    LET body == Body
        lead == Leading(body)
    IN  (/\ PlainEnd
         /\ \A j \in 1..Len(lead) : ~IsStarLine(lead[j])
         /\ \E j \in 1..Len(lead) : IsChangeLine(lead[j]))
        => /\ Len(TheChunks) >= 1
           /\ TheChunks[1].old_lines = OldOf(lead)
           /\ TheChunks[1].new_lines = NewOf(lead)

\* every line a hunk has taken up: chunk lines, contexts and Add content
HunkLines(hunk) ==
  UNION {{hunk.chunks[k].old_lines[j] : j \in 1..Len(hunk.chunks[k].old_lines)}
         \cup {hunk.chunks[k].new_lines[j] : j \in 1..Len(hunk.chunks[k].new_lines)}
         : k \in 1..Len(hunk.chunks)}

\* C20: the hunks are built from the lines strictly between the first Begin
\* and the first End marker only: they are the hunks of the text cut off at
\* its End marker, and hold nothing of the End line or the lines after it
C20_OnlyBetweenMarkers ==
  (Parsed /\ parsed.ok) =>
    LET lines == PatchLines
        cut == SubSeq(lines, 1, EndLineOf(lines) - 1) \o << <<EndPatch>> >>
    IN  /\ parsed.hunks = parsePatch(JoinNL(cut)).hunks
        /\ \A h \in 1..Len(parsed.hunks) :
             HunkLines(parsed.hunks[h]) \cap {<<EndPatch>>, <<"t">>} = {}

(***************************************************************************)
(* Properties of SpecAdd.                                                  *)
(***************************************************************************)

\* the header line of the hunk (line 2 of the text) and what follows its
\* first colon
HeaderLine == PatchLines[2]
AfterColon(line) ==
  LET at == MinOf({i \in 1..Len(line) : line[i] = Colon}) IN SubSeq(line, at + 1, Len(line))

\* C21: the path of a hunk is everything after the colon of its header line,
\* trimmed, also when that holds further colons
C21_PathIsRemainder ==
  (Parsed /\ parsed.ok) =>
    /\ Len(parsed.hunks) = 1
    /\ parsed.hunks[1].path = Trim(AfterColon(HeaderLine))

\* the remainders of the lines that begin with '+'
RECURSIVE PlusRemainders(_)
PlusRemainders(lines) ==
  IF Len(lines) = 0 THEN <<>>
  ELSE (IF Len(lines[1]) > 0 /\ lines[1][1] = Plus
        THEN <<SubSeq(lines[1], 2, Len(lines[1]))>> ELSE <<>>) \o PlusRemainders(Tail(lines))

\* the lines after the header up to the next line that begins with "***"
AddBody ==
  LET lines == PatchLines
      stops == {i \in 3..Len(lines) : IsStarLine(lines[i])}
  IN  SubSeq(lines, 3, (IF stops = {} THEN Len(lines) + 1 ELSE MinOf(stops)) - 1)

EditOccurrences == Occurrences(disk0.files[FileF], editOld)

\* C24: without replaceAll (and with a new string other than the old one) the
\* edit writes the content with its one occurrence of the old string replaced
\* when there is exactly one, and fails, the file as it was, when the old
\* string does not occur or occurs more than once, the empty old string and
\* overlapping occurrences included
C24_EditExactlyOnce ==
  (editPc \in {"done", "failed"} /\ isFile(disk0, FileF) /\ ~editAll /\ editOld # editNew) =>
    IF Cardinality(EditOccurrences) = 1
    THEN /\ editPc = "done"
         /\ disk.files[FileF] =
              ReplaceSpan(disk0.files[FileF], MinOf(EditOccurrences), Len(editOld), editNew)
    ELSE editPc = "failed" /\ disk = disk0

(***************************************************************************)
(* Properties of Spec.                                                     *)
(***************************************************************************)

\* the file at p, if any: <<content>> or <<>>
FileAt(d, p) == IF isFile(d, p) THEN <<d.files[p]>> ELSE <<>>

SamplePaths == {pathResolve(BaseDir, p) : p \in {PathA, PathRoC, PathND}}

\* the filesystem after the first k hunks were applied one after another to
\* the filesystem run started on, stopping at the first that fails: [ok, disk]
RECURSIVE DiskAfter(_)
DiskAfter(k) ==
  IF k = 0 THEN [ok |-> TRUE, disk |-> disk0]
  ELSE LET prev == DiskAfter(k - 1)
           r == applyHunk(prev.disk, resolved[k])
       IN  IF ~prev.ok THEN prev ELSE [ok |-> r.ok, disk |-> r.disk]

\* C7: the hunks are applied one at a time in order, each on what the previous
\* one left; when hunk k fails the call fails, what hunks 1..k-1 did is on
\* disk (nothing outside the files hunk k names differs from it) and no later
\* hunk has had an effect
C7_SequentialAbort ==
  /\ pc = "done" =>
       /\ DiskAfter(Len(resolved)).ok
       /\ disk = DiskAfter(Len(resolved)).disk
  /\ (pc = "failed" /\ Len(resolved) > 0) =>
       /\ DiskAfter(idx - 1).ok
       /\ ~DiskAfter(idx).ok
       /\ disk = DiskAfter(idx).disk
       /\ \A p \in SamplePaths \ NamedPaths(resolved[idx]) :
            FileAt(disk, p) = FileAt(DiskAfter(idx - 1).disk, p)

\* C7's case: the second of three hunks, a Delete, failed after an Add had
\* been applied; the Add's file is on disk and the third hunk, which would have
\* succeeded, has not been applied
C7_Witness ==
  /\ pc = "failed"
  /\ Len(resolved) = 3
  /\ idx = 2
  /\ resolved[1].type = "add"
  /\ resolved[2].type = "delete"
  /\ isFile(disk, resolved[1].path)
  /\ ~isFile(disk0, resolved[1].path)
  /\ applyHunk(disk, resolved[3]).ok
  /\ applyHunk(disk, resolved[3]).disk # disk

\* C8: a hunk that fails leaves the files it names as they were before it
C8_AtomicPerHunk ==
  [][(pc = "loop" /\ pc' = "failed") =>
       \A p \in NamedPaths(resolved[idx]) : FileAt(disk', p) = FileAt(disk, p)]_vars

\* C10: after a successful Update with a move_path, move_path holds the new
\* content derived from the original path's content, the original path (when
\* it is another file) is gone, and move_path is in modified and not in added
C10_MoveResult ==
  [][(/\ pc = "loop"
      /\ resolved[idx].type = "update"
      /\ Truthy(resolved[idx].move_path)
      /\ pc' # "failed") =>
       LET hunk == resolved[idx]
           target == hunk.move_path[1]
       IN  /\ isFile(disk', target)
           /\ disk'.files[target] = deriveNewContents(disk.files[hunk.path], hunk.chunks).content
           /\ (hunk.path # target => ~isFile(disk', hunk.path))
           /\ modified' = Append(modified, target)
           /\ added' = added]_vars

\* C15: a successful Add leaves at the hunk's path the hunk's contents followed
\* by one newline, the parent directory of the path exists, and the path is
\* appended to added
C15_AddAppendsNewline ==
  [][(/\ pc = "loop"
      /\ resolved[idx].type = "add"
      /\ pc' # "failed") =>
       LET hunk == resolved[idx]
       IN  /\ isFile(disk', hunk.path)
           /\ disk'.files[hunk.path] = hunk.contents \o <<NL>>
           /\ dirname(hunk.path) \in disk'.dirs
           /\ added' = Append(added, hunk.path)]_vars

\* p lies in the base directory
InsideBaseDir(p) == Len(p) >= Len(BaseDir) /\ SubSeq(p, 1, Len(BaseDir)) = BaseDir

\* C29: chat_patch creates, overwrites and deletes files inside its base
\* directory only, and a patch with a hunk whose path or move_path resolves
\* outside it is rejected with the filesystem unchanged
C29_StaysInBaseDir ==
  /\ \A p \in DOMAIN disk.files \cup DOMAIN disk0.files :
       FileAt(disk, p) # FileAt(disk0, p) => InsideBaseDir(p)
  /\ (Finished /\ \E k \in 1..Len(resolved) :
                    \E p \in NamedPaths(resolved[k]) : ~InsideBaseDir(p))
     => (pc = "failed" /\ disk = disk0)

(***************************************************************************)
(* Properties of SpecEmbed.                                                *)
(***************************************************************************)

\* C26: for any number of getEmbedder calls, overlapping ones included, the
\* model initialisation runs at most once and every caller that returns
\* receives the same instance
C26_InitialisedOnce ==
  /\ inits <= 1
  /\ \A c, d \in Callers :
       (callPc[c] = "done" /\ callPc[d] = "done") => callResult[c] = callResult[d]

(***************************************************************************)
(* Properties of SpecBatch.                                                *)
(***************************************************************************)

\* one chat_patch call run alone on d: the loop of applyHunksToFiles from
\* hunk k, stopping at the first error
RECURSIVE runHunks(_, _, _)
runHunks(d, hs, k) ==
  IF k > Len(hs) THEN [ok |-> TRUE, disk |-> d]
  ELSE LET r == applyHunk(d, hs[k])
       IN  IF ~r.ok THEN [ok |-> FALSE, disk |-> r.disk]
           ELSE runHunks(r.disk, hs, k + 1)

\* the calls run one after another in list order from call i on: the final
\* disk and whether each call returned
RECURSIVE runInOrder(_, _, _, _)
runInOrder(d, calls, i, oks) ==
  IF i > Len(calls) THEN [disk |-> d, oks |-> oks]
  ELSE LET r == IF Len(calls[i]) = 0 THEN [ok |-> FALSE, disk |-> d]
                ELSE runHunks(d, resolveHunks(BaseDir, calls[i]), 1)
       IN  runInOrder(r.disk, calls, i + 1, Append(oks, r.ok))

\* every call of the batch has returned or thrown
BatchSettled ==
  /\ batchPc = "running"
  /\ \A i \in 1..Len(tasks) : tasks[i].state \in {"done", "failed"}

\* the interleaved run ended as the run in list order does
AsInListOrder ==
  LET s == runInOrder(disk0, batchCalls, 1, <<>>)
  IN  /\ disk = s.disk
      /\ \A i \in 1..Len(tasks) : (tasks[i].state = "done") = s.oks[i]

IsProperPrefix(p, q) == Len(p) < Len(q) /\ SubSeq(q, 1, Len(p)) = p

\* no file one call names is a directory on the way to a file another names
NoFileIsDirectoryOfAnother ==
  \A i, j \in 1..Len(batchCalls) :
    i # j => \A p \in CallPaths(batchCalls[i]), q \in CallPaths(batchCalls[j]) :
               ~IsProperPrefix(p, q)

\* C25 as stated: whenever the calls of a batch name pairwise disjoint
\* files, every interleaving ends with the disk, and the outcome of each
\* call, of the run in list order
C25_AsStated ==
  (BatchSettled /\ DisjointFiles(batchCalls)) => AsInListOrder

\* C25: when the calls of a batch name pairwise disjoint files and no file
\* of one call is a directory on the path of a file of another call, every
\* interleaving of the calls' fs operations ends with the disk, and the
\* outcome of each call, of the run in list order
C25_DisjointCallsCommute ==
  (BatchSettled /\ DisjointFiles(batchCalls) /\ NoFileIsDirectoryOfAnother) => AsInListOrder

\* two calls of several fs operations each have both returned, each having
\* changed its own file
C25_Witness ==
  /\ BatchSettled /\ DisjointFiles(batchCalls) /\ NoFileIsDirectoryOfAnother
  /\ Len(tasks) = 2
  /\ \A i \in 1..2 : tasks[i].state = "done" /\ Len(tasks[i].hunks) = 2
  /\ \A i \in 1..2 : \E p \in CallPaths(batchCalls[i]) : FileAt(disk, p) # FileAt(disk0, p)

(***************************************************************************)
(* Properties of SpecIndex.                                                *)
(***************************************************************************)

\* the chunk rows of a path, in insertion order
RowsOf(path) == SelectSeq(chunksTable, LAMBDA row : row.path = path)

\* the rows of a path are the chunks 1..n, once each, of one content, the
\* one whose mtime is recorded
ChunksOfRecorded(path) ==
  LET rows == RowsOf(path)
  IN  /\ Len(rows) > 0
      /\ \A k \in 1..Len(rows) :
           /\ rows[k].i = k
           /\ rows[k].of = Len(rows)
           /\ rows[k].ver = rows[1].ver
           /\ FloorMs(rows[k].ver) = filesTable[path]

\* C27: in changed mode no file whose stored mtime equals its current mtime
\* is a target, and after any sequence of runs every path with a recorded
\* mtime has exactly the chunks of its most recent indexing: no duplicates,
\* no leftovers of an earlier run, and never a recorded mtime without chunks
C27_ChunksMatchRecordedMtime ==
  /\ (indexPc = "loop" /\ mode = "changed") =>
       \A k \in pos..Len(targets) :
         LET path == targets[k].absPath
         IN  ~(path \in DOMAIN filesTable
               /\ filesTable[path] = FloorMs(worktree[path].mtimeMs))
  /\ IndexAtRest => \A path \in DOMAIN filesTable : ChunksOfRecorded(path)

\* no chunk row of a file that is gone or of an earlier content of a file
NoStaleChunks(rows, wt) ==
  \A k \in 1..Len(rows) :
    /\ rows[k].path \in DOMAIN wt
    /\ rows[k].ver = wt[rows[k].path].mtimeMs

\* C30: when a changed-mode run completes, every chunk row belongs to a
\* file that still exists and was chunked from that file's current content
C30_NoStaleChunks ==
  [][(indexPc # "returned" /\ indexPc' = "returned" /\ mode' = "changed")
       => NoStaleChunks(chunksTable', worktree')]_vars

====
